---- MODULE Spec2Model ----
(***************************************************************************)
(* A model of the workout planner of src/workouttest11.py: the nested      *)
(* week/day/exercise plan, the PR tracker, the fatigue/recovery engine and *)
(* the handlers of the Tk event loop that mutate them.                     *)
(*                                                                         *)
(* Representation.                                                         *)
(*  - Text fields (exercise, sets, reps, weight) are TLA+ strings; int()   *)
(*    and float() are modelled character by character (IntParses,          *)
(*    FloatParses) on decimal literals with at most one fractional digit.  *)
(*  - A parsed weight is held in tenths (WeightScale), a load in tenths,   *)
(*    a fatigue in 1/Unit of a fatigue point, an engagement fraction in    *)
(*    tenths, so that the float arithmetic of the source is exact integer  *)
(*    arithmetic here (float rounding is not modelled).                    *)
(*  - A calendar date is a day number; '2000-01-01' is EPOCH.  A          *)
(*    datetime.date object is DateObj(n), the ISO string of the same day   *)
(*    is DateStr(n): the two are different values, as in Python.  A day    *)
(*    of the plan stores its date as a string (the number n) or has no     *)
(*    'date' key (NoDate).                                                 *)
(*  - A day label "Day k" is the number k.                                 *)
(*  - The object is the record self; a method is an operator from self to  *)
(*    self.  self.err holds the exception a handler raised ("" if none):   *)
(*    Tk reports it and the event loop goes on with the state the handler  *)
(*    left behind.  self.msg is the title of the last message box shown.   *)
(***************************************************************************)
EXTENDS Integers, Sequences, FiniteSets, TLC

VARIABLES
    self,            \* the WorkoutPlanner object
    remove_dialogs,  \* the open Remove-Day dialogs, in the order they were opened
    swap_dialogs,    \* the open Swap-Days dialogs: the day_options of each
    overview,        \* Edit buttons of the widest Week Overview window left open
    timer,           \* whether root.after holds a pending update_recovery
    loads,           \* files read through load_data so far
    edits,           \* gestures that changed the plan or the date entry so far
    last             \* the handler that ran last and, for a function, its result

vars == <<self, remove_dialogs, swap_dialogs, overview, timer, loads, edits, last>>

-----------------------------------------------------------------------------
(* Bounds of the model.                                                    *)

\* Longest PR history the model follows (history is append-only in the code).
MaxHist == 3
\* Most Remove-Day and Swap-Days dialogs open at once.
MaxDialogs == 2
\* Most gestures that add to the plan or rewrite a field in one run (cell
\* edits, exercises added or removed, days added, dates picked, files
\* loaded); viewing, navigating, removing and swapping days are not counted.
MaxEdits == 1

-----------------------------------------------------------------------------
(* Dates.                                                                  *)

EPOCH == 0
Today == 10
NoDate == -1
None == [t |-> "None"]
DateObj(n) == [t |-> "date", d |-> n]
DateStr(n) == [t |-> "str", d |-> n]
\* datetime.strptime(s, '%Y-%m-%d').date() of a stored date string
strptime(n) == DateObj(n)
\* date.strftime('%Y-%m-%d')
strftime(d) == d.d

-----------------------------------------------------------------------------
(* Text and parsing.                                                       *)

Ch(s, i) == SubSeq(s, i, i)
Rest(s) == SubSeq(s, 2, Len(s))

Digits == {"0", "1", "2", "3", "4", "5", "6", "7", "8", "9"}
DigitVal(c) ==
    CASE c = "0" -> 0 [] c = "1" -> 1 [] c = "2" -> 2 [] c = "3" -> 3
      [] c = "4" -> 4 [] c = "5" -> 5 [] c = "6" -> 6 [] c = "7" -> 7
      [] c = "8" -> 8 [] c = "9" -> 9

AllDigits(s) == \A i \in 1..Len(s) : Ch(s, i) \in Digits

RECURSIVE DigitsVal(_, _)
DigitsVal(s, acc) ==
    IF s = "" THEN acc ELSE DigitsVal(Rest(s), 10 * acc + DigitVal(Ch(s, 1)))

Unsigned(s) == IF s # "" /\ Ch(s, 1) \in {"-", "+"} THEN Rest(s) ELSE s
Sign(s) == IF s # "" /\ Ch(s, 1) = "-" THEN -1 ELSE 1
DotAt(s) == {i \in 1..Len(s) : Ch(s, i) = "."}

\* int(s): an optional sign and one or more digits; anything else raises ValueError.
IntParses(s) == LET u == Unsigned(s) IN u # "" /\ AllDigits(u)
IntValue(s) == Sign(s) * DigitsVal(Unsigned(s), 0)

\* float(s): sign, digits, optionally a point and digits (digits on at least one side).
WeightScale == 10
FloatParses(s) ==
    LET u == Unsigned(s) IN
    \/ u # "" /\ AllDigits(u)
    \/ /\ Cardinality(DotAt(u)) = 1
       /\ LET p == CHOOSE i \in DotAt(u) : TRUE
              a == SubSeq(u, 1, p - 1)
              b == SubSeq(u, p + 1, Len(u))
          IN AllDigits(a) /\ AllDigits(b) /\ Len(a) + Len(b) > 0 /\ Len(b) <= 1
\* the value of float(s) in tenths
FloatValue(s) ==
    LET u == Unsigned(s) IN
    IF DotAt(u) = {} THEN Sign(s) * WeightScale * DigitsVal(u, 0)
    ELSE LET p == CHOOSE i \in DotAt(u) : TRUE
             a == SubSeq(u, 1, p - 1)
             b == SubSeq(u, p + 1, Len(u))
         IN Sign(s) * (WeightScale * DigitsVal(a, 0) + DigitsVal(b, 0))

LowerChar(c) ==
    CASE c = "A" -> "a" [] c = "B" -> "b" [] c = "C" -> "c" [] c = "D" -> "d"
      [] c = "E" -> "e" [] c = "F" -> "f" [] c = "G" -> "g" [] c = "H" -> "h"
      [] c = "I" -> "i" [] c = "J" -> "j" [] c = "K" -> "k" [] c = "L" -> "l"
      [] c = "M" -> "m" [] c = "N" -> "n" [] c = "O" -> "o" [] c = "P" -> "p"
      [] c = "Q" -> "q" [] c = "R" -> "r" [] c = "S" -> "s" [] c = "T" -> "t"
      [] c = "U" -> "u" [] c = "V" -> "v" [] c = "W" -> "w" [] c = "X" -> "x"
      [] c = "Y" -> "y" [] c = "Z" -> "z" [] OTHER -> c

RECURSIVE lower(_)
lower(s) == IF s = "" THEN "" ELSE LowerChar(Ch(s, 1)) \o lower(Rest(s))

\* Python's  k in s  on strings
Contains(s, k) ==
    \E i \in 1..(Len(s) - Len(k) + 1) : SubSeq(s, i, i + Len(k) - 1) = k

-----------------------------------------------------------------------------
(* The texts the model draws from.                                         *)

\* values typed into, or imported for, a sets / reps / weight cell
Values == {"", "x", "0", "3", "5", "-5", "10", "100", "2.5"}
\* exercise names
Names == {"Bench Press", "Squat", "Front Squat", "New Exercise", "Stretch"}

IntParsesT == [v \in Values |-> IntParses(v)]
IntValueT == [v \in Values |-> IF IntParses(v) THEN IntValue(v) ELSE 0]
FloatParsesT == [v \in Values |-> FloatParses(v)]
FloatValueT == [v \in Values |-> IF FloatParses(v) THEN FloatValue(v) ELSE 0]

Exercise(n, s, r, w) == [exercise |-> n, sets |-> s, reps |-> r, weight |-> w]

-----------------------------------------------------------------------------
(* Load Calculator.                                                        *)

\* a load calculator that reads the weight with int()
calculate_load_int_weight(exercise) ==
    IF /\ IntParsesT[exercise.sets]
       /\ IntParsesT[exercise.reps]
       /\ IntParsesT[exercise.weight]
    THEN IntValueT[exercise.sets] * IntValueT[exercise.reps]
            * WeightScale * IntValueT[exercise.weight]
    ELSE 0

\* calculate_load: sets * reps * weight (in tenths), 0 on ValueError
calculate_load(exercise) ==
    IF /\ IntParsesT[exercise.sets]
       /\ IntParsesT[exercise.reps]
       /\ FloatParsesT[exercise.weight]
    THEN IntValueT[exercise.sets] * IntValueT[exercise.reps]
            * FloatValueT[exercise.weight]
    ELSE 0

-----------------------------------------------------------------------------
(* Fatigue / recovery engine: constants.                                   *)

Muscles ==
    {"chest", "shoulders", "biceps", "triceps", "abs", "obliques", "quads",
     "calves", "trapezius", "back", "lats", "glutes", "hamstrings",
     "forearms", "rear delts"}

recovery_rates ==
    "chest" :> 15 @@ "shoulders" :> 15 @@ "biceps" :> 20 @@ "triceps" :> 20
    @@ "abs" :> 25 @@ "obliques" :> 25 @@ "quads" :> 15 @@ "calves" :> 25
    @@ "trapezius" :> 20 @@ "back" :> 15 @@ "lats" :> 15 @@ "glutes" :> 15
    @@ "hamstrings" :> 15 @@ "forearms" :> 25 @@ "rear delts" :> 20

\* fatigue_threshold, in fatigue points
fatigue_threshold == 100
\* one fatigue point, in the model's fixed-point units: load is in tenths, a
\* fraction in tenths, and fatigue_multiplier / 100 is 1/1000
Unit == 100000
FATIGUE_MAX == fatigue_threshold * Unit

\* fractions in tenths, in the table's order
engagement_map ==
    <<
      [key |-> "bench press", engagement |-> "chest" :> 8 @@ "triceps" :> 2 @@ "shoulders" :> 2],
      [key |-> "incline db press", engagement |-> "chest" :> 7 @@ "shoulders" :> 3 @@ "triceps" :> 2],
      [key |-> "db bench press", engagement |-> "chest" :> 8 @@ "triceps" :> 2 @@ "shoulders" :> 2],
      [key |-> "decline bench press", engagement |-> "chest" :> 8 @@ "triceps" :> 2 @@ "shoulders" :> 2],
      [key |-> "pec fly machine", engagement |-> "chest" :> 10],
      [key |-> "cable chest fly", engagement |-> "chest" :> 10],
      [key |-> "dip", engagement |-> "chest" :> 6 @@ "triceps" :> 4],
      [key |-> "shoulder press", engagement |-> "shoulders" :> 8 @@ "triceps" :> 2],
      [key |-> "db lateral raise", engagement |-> "shoulders" :> 10],
      [key |-> "face pull", engagement |-> "shoulders" :> 6 @@ "trapezius" :> 4 @@ "rear delts" :> 3],
      [key |-> "overhead press", engagement |-> "shoulders" :> 8 @@ "triceps" :> 2],
      [key |-> "front raise", engagement |-> "shoulders" :> 10],
      [key |-> "lat raises", engagement |-> "shoulders" :> 10],
      [key |-> "rear delt fly", engagement |-> "shoulders" :> 10],
      [key |-> "bicep curl", engagement |-> "biceps" :> 10],
      [key |-> "hammer curl", engagement |-> "biceps" :> 8 @@ "forearms" :> 2],
      [key |-> "preacher curl", engagement |-> "biceps" :> 10],
      [key |-> "cable curl", engagement |-> "biceps" :> 10],
      [key |-> "ez bar curl", engagement |-> "biceps" :> 9 @@ "forearms" :> 1],
      [key |-> "skull crushers", engagement |-> "triceps" :> 10],
      [key |-> "tricep extension", engagement |-> "triceps" :> 10],
      [key |-> "triceps pushdown", engagement |-> "triceps" :> 10],
      [key |-> "triceps rope pulldown", engagement |-> "triceps" :> 10],
      [key |-> "squat", engagement |-> "quads" :> 6 @@ "glutes" :> 3 @@ "hamstrings" :> 2],
      [key |-> "back squat", engagement |-> "quads" :> 6 @@ "glutes" :> 3 @@ "hamstrings" :> 2],
      [key |-> "front squat", engagement |-> "quads" :> 7 @@ "glutes" :> 2 @@ "hamstrings" :> 1],
      [key |-> "leg press", engagement |-> "quads" :> 7 @@ "glutes" :> 2 @@ "hamstrings" :> 1],
      [key |-> "hack squat", engagement |-> "quads" :> 8 @@ "glutes" :> 2],
      [key |-> "bulgarian split squat", engagement |-> "quads" :> 5 @@ "glutes" :> 3 @@ "hamstrings" :> 2],
      [key |-> "leg extension", engagement |-> "quads" :> 10],
      [key |-> "leg curl", engagement |-> "hamstrings" :> 10],
      [key |-> "romanian deadlift", engagement |-> "hamstrings" :> 6 @@ "glutes" :> 3 @@ "back" :> 2],
      [key |-> "prone machine hamstring curl", engagement |-> "hamstrings" :> 10],
      [key |-> "calf raise", engagement |-> "calves" :> 10],
      [key |-> "deadlift", engagement |-> "back" :> 5 @@ "glutes" :> 3 @@ "hamstrings" :> 3 @@ "trapezius" :> 2 @@ "forearms" :> 1],
      [key |-> "deadlift paused", engagement |-> "back" :> 5 @@ "glutes" :> 3 @@ "hamstrings" :> 3 @@ "trapezius" :> 2 @@ "forearms" :> 1],
      [key |-> "lat pulldown", engagement |-> "lats" :> 8 @@ "biceps" :> 2],
      [key |-> "pull up", engagement |-> "lats" :> 7 @@ "biceps" :> 3],
      [key |-> "row", engagement |-> "back" :> 7 @@ "biceps" :> 3],
      [key |-> "barbell row", engagement |-> "back" :> 7 @@ "biceps" :> 2 @@ "forearms" :> 1],
      [key |-> "t bar row", engagement |-> "back" :> 8 @@ "biceps" :> 2],
      [key |-> "seated cable row", engagement |-> "back" :> 7 @@ "biceps" :> 2 @@ "forearms" :> 1],
      [key |-> "back extension", engagement |-> "back" :> 8 @@ "glutes" :> 2],
      [key |-> "crunch", engagement |-> "abs" :> 10],
      [key |-> "plank", engagement |-> "abs" :> 7 @@ "obliques" :> 3],
      [key |-> "reverse fly", engagement |-> "rear delts" :> 8 @@ "trapezius" :> 2],
      [key |-> "bent over lateral raise", engagement |-> "rear delts" :> 9 @@ "trapezius" :> 1]
    >>

Min2(a, b) == IF a <= b THEN a ELSE b
Max2(a, b) == IF a >= b THEN a ELSE b

\* next((key for key in self.engagement_map.keys() if key in exercise_name), None):
\* the index of the first key, in table order, contained in the name; 0 for None
\* a lookup that takes the last matching key of the table
matched_exercise_last(exercise_name) ==
    LET hits == {i \in 1..Len(engagement_map) :
                    Contains(exercise_name, engagement_map[i].key)}
    IN IF hits = {} THEN 0 ELSE CHOOSE i \in hits : \A j \in hits : i >= j

matched_exercise(exercise_name) ==
    LET hits == {i \in 1..Len(engagement_map) :
                    Contains(exercise_name, engagement_map[i].key)}
    IN IF hits = {} THEN 0 ELSE CHOOSE i \in hits : \A j \in hits : i <= j

MatchedT == [n \in Names |-> matched_exercise(lower(n))]

initialize_muscle_recovery ==
    [muscle \in Muscles |-> [fatigue |-> 0, last_workout |-> None]]

\* engage_muscles: the muscle_recovery map after one exercise of a day dated
\* workout_date (a date object)
\* the loop over engagement.items() (lines 920-928)
fatigue_increase(load, fraction) == Min2(load * fraction, FATIGUE_MAX)
current_fatigue(mr, muscle) ==
    IF muscle \in DOMAIN mr THEN mr[muscle].fatigue ELSE 0
Engage(mr, load, engagement, workout_date) ==
    [muscle \in (DOMAIN mr) \cup (DOMAIN engagement) |->
        IF muscle \in DOMAIN engagement
        THEN [fatigue |-> Min2(FATIGUE_MAX,
                               current_fatigue(mr, muscle)
                                 + fatigue_increase(load, engagement[muscle])),
              last_workout |-> workout_date]
        ELSE mr[muscle]]

engage_muscles(mr, exercise, workout_date) ==
    IF MatchedT[exercise.exercise] # 0 /\ calculate_load(exercise) > 0
    THEN Engage(mr, calculate_load(exercise),
                engagement_map[MatchedT[exercise.exercise]].engagement,
                workout_date)
    ELSE mr

\* the days of the plan in traversal order (for week in workouts: for day in week)
RECURSIVE AllDays(_)
AllDays(workouts) ==
    IF workouts = <<>> THEN <<>>
    ELSE Head(workouts) \o AllDays(Tail(workouts))

RECURSIVE EngageExercises(_, _, _)
EngageExercises(mr, exercises, workout_date) ==
    IF exercises = <<>> THEN mr
    ELSE EngageExercises(engage_muscles(mr, Head(exercises), workout_date),
                         Tail(exercises), workout_date)

\* day.get('date', '2000-01-01'), parsed
day_date(day) == strptime(IF day.date = NoDate THEN EPOCH ELSE day.date)

\* the replay loop shared by load_workout_data (717-723) and
\* calculate_muscle_engagement (933-939): every exercise of every day dated
\* on or before cutoff (a date object), in plan order
RECURSIVE EngageDays(_, _, _)
EngageDay(mr, day, cutoff) ==
    IF day_date(day).d <= cutoff.d
    THEN EngageExercises(mr, day.exercises, day_date(day))
    ELSE mr
EngageDays(mr, days, cutoff) ==
    IF days = <<>> THEN mr
    ELSE EngageDays(EngageDay(mr, Head(days), cutoff), Tail(days), cutoff)

\* calculate_weekly_muscle_engagement: the same replay without a cutoff
RECURSIVE EngageAllDays(_, _)
EngageAllDays(mr, days) ==
    IF days = <<>> THEN mr
    ELSE EngageAllDays(EngageExercises(mr, Head(days).exercises,
                                       day_date(Head(days))),
                       Tail(days))

\* whether a decay loop meets a muscle with a last_workout
HasLastWorkout(mr) == \E muscle \in DOMAIN mr : mr[muscle].last_workout # None

\* calculate_current_fatigue, current_date a date object
recovery_amount(muscle, days) == recovery_rates[muscle] * days * Unit
days_since_workout(data, current_date) ==
    Max2(0, current_date.d - data.last_workout.d)
current_fatigue_of(mr, current_date) ==
    [muscle \in DOMAIN mr |->
        IF mr[muscle].last_workout # None
        THEN [mr[muscle] EXCEPT
                !.fatigue =
                    Max2(0, @ - recovery_amount(muscle,
                                    days_since_workout(mr[muscle],
                                                       current_date)))]
        ELSE mr[muscle]]

\* update_muscle_recovery, current_date a date object: days_elapsed is not clamped
days_elapsed(data, current_date) == current_date.d - data.last_workout.d
muscle_recovery_of(mr, current_date) ==
    [muscle \in DOMAIN mr |->
        IF mr[muscle].last_workout # None
        THEN [mr[muscle] EXCEPT
                !.fatigue =
                    Max2(@ - recovery_amount(muscle,
                                 days_elapsed(mr[muscle], current_date)),
                         0)]
        ELSE mr[muscle]]

\* calculate_current_fatigue as a method: date - date on a str raises TypeError
\* at the first muscle that has a last_workout, before anything is written
calculate_current_fatigue(s) ==
    IF s.err # "" THEN s
    ELSE IF HasLastWorkout(s.muscle_recovery) /\ s.current_date.t # "date"
    THEN [s EXCEPT !.err = "TypeError"]
    ELSE [s EXCEPT !.muscle_recovery =
                      current_fatigue_of(s.muscle_recovery, s.current_date)]

update_muscle_recovery(s) ==
    IF s.err # "" THEN s
    ELSE IF HasLastWorkout(s.muscle_recovery) /\ s.current_date.t # "date"
    THEN [s EXCEPT !.err = "TypeError"]
    ELSE [s EXCEPT !.muscle_recovery =
                      muscle_recovery_of(s.muscle_recovery, s.current_date)]

\* update_muscle_visualization: the heat map is drawn from muscle_recovery
\* after calculate_current_fatigue
update_muscle_visualization(s) == calculate_current_fatigue(s)

-----------------------------------------------------------------------------
(* PR tracker.  self.prs is a dict: here the sequence of its items in      *)
(* insertion order.                                                        *)

NewRecord(name) ==
    [name |-> name,
     weight |-> [value |-> 0, date |-> None],
     reps |-> [value |-> 0, date |-> None],
     history |-> <<>>]

PrNames(prs) == {prs[i].name : i \in 1..Len(prs)}
PrIndex(prs, name) == CHOOSE i \in 1..Len(prs) : prs[i].name = name

RECURSIVE InitPrsOver(_, _)
InitPrsOver(prs, exercises) ==
    IF exercises = <<>> THEN prs
    ELSE LET n == Head(exercises).exercise
         IN InitPrsOver(IF n \in PrNames(prs) THEN prs
                        ELSE Append(prs, NewRecord(n)),
                        Tail(exercises))

RECURSIVE AllExercises(_)
AllExercises(days) ==
    IF days = <<>> THEN <<>>
    ELSE Head(days).exercises \o AllExercises(Tail(days))

initialize_prs(workouts) == InitPrsOver(<<>>, AllExercises(AllDays(workouts)))

\* the PR of a record after one (weight, reps) under two other rules: a
\* weight PR taken on an equal weight too, and a reps PR taken at any weight
RecordWith(prs, current_date, exercise, w1, r1) ==
    LET have == IF exercise.exercise \in PrNames(prs) THEN prs
                ELSE Append(prs, NewRecord(exercise.exercise))
        i == PrIndex(have, exercise.exercise)
    IN [have EXCEPT ![i] =
          [name |-> exercise.exercise, weight |-> w1, reps |-> r1,
           history |-> Append(have[i].history,
                              [date |-> current_date,
                               weight |-> FloatValueT[exercise.weight],
                               reps |-> IntValueT[exercise.reps]])]]
StoredPr(prs, name) ==
    IF name \in PrNames(prs) THEN prs[PrIndex(prs, name)] ELSE NewRecord(name)
update_prs_weight_ge(prs, current_date, exercise) ==
    IF ~(FloatParsesT[exercise.weight] /\ IntParsesT[exercise.reps]) THEN prs
    ELSE LET pr == StoredPr(prs, exercise.exercise)
             weight == FloatValueT[exercise.weight]
             reps == IntValueT[exercise.reps]
             w1 == IF weight >= pr.weight.value
                   THEN [value |-> weight, date |-> current_date]
                   ELSE pr.weight
             r1 == IF weight = w1.value /\ reps > pr.reps.value
                   THEN [value |-> reps, date |-> current_date]
                   ELSE pr.reps
         IN RecordWith(prs, current_date, exercise, w1, r1)
update_prs_reps_any_weight(prs, current_date, exercise) ==
    IF ~(FloatParsesT[exercise.weight] /\ IntParsesT[exercise.reps]) THEN prs
    ELSE LET pr == StoredPr(prs, exercise.exercise)
             weight == FloatValueT[exercise.weight]
             reps == IntValueT[exercise.reps]
             w1 == IF weight > pr.weight.value
                   THEN [value |-> weight, date |-> current_date]
                   ELSE pr.weight
             r1 == IF reps > pr.reps.value
                   THEN [value |-> reps, date |-> current_date]
                   ELSE pr.reps
         IN RecordWith(prs, current_date, exercise, w1, r1)
\* two further rules: the history kept of new PRs only, and the record of an
\* unseen exercise created before the texts are parsed
WithRecord(prs, name) ==
    IF name \in PrNames(prs) THEN prs ELSE Append(prs, NewRecord(name))
WeightPrAfter(pr, current_date, weight) ==
    IF weight > pr.weight.value
    THEN [value |-> weight, date |-> current_date]
    ELSE pr.weight
RepsPrAfter(pr, current_date, weight, reps) ==
    IF weight = WeightPrAfter(pr, current_date, weight).value
          /\ reps > pr.reps.value
    THEN [value |-> reps, date |-> current_date]
    ELSE pr.reps
PrAfter(prs, current_date, exercise) ==
    RecordWith(prs, current_date, exercise,
               WeightPrAfter(StoredPr(prs, exercise.exercise), current_date,
                             FloatValueT[exercise.weight]),
               RepsPrAfter(StoredPr(prs, exercise.exercise), current_date,
                           FloatValueT[exercise.weight],
                           IntValueT[exercise.reps]))
update_prs_history_of_prs(prs, current_date, exercise) ==
    IF ~(FloatParsesT[exercise.weight] /\ IntParsesT[exercise.reps]) THEN prs
    ELSE IF StoredPr(PrAfter(prs, current_date, exercise),
                     exercise.exercise).weight
               = StoredPr(prs, exercise.exercise).weight
            /\ StoredPr(PrAfter(prs, current_date, exercise),
                        exercise.exercise).reps
                  = StoredPr(prs, exercise.exercise).reps
    THEN WithRecord(prs, exercise.exercise)
    ELSE PrAfter(prs, current_date, exercise)
update_prs_record_first(prs, current_date, exercise) ==
    IF ~(FloatParsesT[exercise.weight] /\ IntParsesT[exercise.reps])
    THEN WithRecord(prs, exercise.exercise)
    ELSE PrAfter(prs, current_date, exercise)
\* a further rule: the first entry of an unseen exercise sets the weight PR
\* only
update_prs_first_weight_only(prs, current_date, exercise) ==
    IF ~(FloatParsesT[exercise.weight] /\ IntParsesT[exercise.reps]) THEN prs
    ELSE IF exercise.exercise \in PrNames(prs)
    THEN PrAfter(prs, current_date, exercise)
    ELSE RecordWith(prs, current_date, exercise,
                    WeightPrAfter(NewRecord(exercise.exercise), current_date,
                                  FloatValueT[exercise.weight]),
                    NewRecord(exercise.exercise).reps)

\* update_prs on the dict prs with self.current_date = current_date
update_prs_of(prs, current_date, exercise) ==
    IF ~(FloatParsesT[exercise.weight] /\ IntParsesT[exercise.reps])
    THEN prs
    ELSE LET exercise_name == exercise.exercise
             weight == FloatValueT[exercise.weight]
             reps == IntValueT[exercise.reps]
             prs1 == IF exercise_name \in PrNames(prs) THEN prs
                     ELSE Append(prs, NewRecord(exercise_name))
             i == PrIndex(prs1, exercise_name)
             pr_data == prs1[i]
             w1 == IF weight > pr_data.weight.value
                   THEN [value |-> weight, date |-> current_date]
                   ELSE pr_data.weight
             r1 == IF weight = w1.value /\ reps > pr_data.reps.value
                   THEN [value |-> reps, date |-> current_date]
                   ELSE pr_data.reps
         IN [prs1 EXCEPT ![i] =
               [name |-> exercise_name, weight |-> w1, reps |-> r1,
                history |-> Append(pr_data.history,
                                   [date |-> current_date, weight |-> weight,
                                    reps |-> reps])]]

update_prs(s, exercise) ==
    [s EXCEPT !.prs = update_prs_of(s.prs, s.current_date, exercise)]

RECURSIVE UpdatePrsOver(_, _, _)
UpdatePrsOver(prs, current_date, exercises) ==
    IF exercises = <<>> THEN prs
    ELSE UpdatePrsOver(update_prs_of(prs, current_date, Head(exercises)),
                       current_date, Tail(exercises))

\* the loop of recalculate_prs over the days in plan order: the pair
\* <<prs, current_date>> it ends with
RECURSIVE RecalcOver(_, _, _)
RecalcOver(prs, current_date, days) ==
    IF days = <<>> THEN <<prs, current_date>>
    ELSE LET day == Head(days)
             cd == IF day.date = NoDate THEN current_date
                   ELSE DateStr(day.date)
         IN RecalcOver(UpdatePrsOver(prs, cd, day.exercises), cd, Tail(days))

recalculate_prs(s) ==
    IF s.err # "" THEN s
    ELSE LET r == RecalcOver(initialize_prs(s.workouts), s.current_date,
                             AllDays(s.workouts))
         IN [s EXCEPT !.prs = r[1], !.current_date = r[2]]

-----------------------------------------------------------------------------
(* PR details and progress graph.                                          *)

\* the exercise names the PR displays are run on, and the names the buttons
\* of create_ui (lines 496-501) ask for, with one name outside the families
DetailNames ==
    <<"Squat", "squat", "Hack Squat", "Bulgarian Split Squat", "Front Squat",
      "Bench Press", "Barbell Bench Press", "Deadlift", "Stretch">>
Queries == {"Bench Press", "Squats", "Deadlift", "stretch"}
GraphNames ==
    {"squat", "back squat", "front squat", "bench press",
     "barbell bench press", "Deadlift"}
LowerT ==
    [n \in {DetailNames[i] : i \in 1..Len(DetailNames)} \cup Queries
              \cup GraphNames
        |-> lower(n)]

\* str.split()[0] of a text that starts with a word
RECURSIVE first_word(_)
first_word(s) ==
    IF s = "" \/ Ch(s, 1) = " " THEN "" ELSE Ch(s, 1) \o first_word(Rest(s))

\* a match that takes every name holding "squat"
matches_any_squat(exercise_name_lower, key_lower) ==
    IF Contains(exercise_name_lower, "squat") THEN Contains(key_lower, "squat")
    ELSE IF Contains(exercise_name_lower, "bench")
    THEN Contains(key_lower, "bench")
    ELSE IF Contains(exercise_name_lower, "deadlift")
    THEN Contains(key_lower, "deadlift")
    ELSE exercise_name_lower = key_lower

\* lines 220-240: does the record named key match the query
matches(exercise_name_lower, key_lower) ==
    IF Contains(exercise_name_lower, "squat")
    THEN /\ Contains(key_lower, "squat")
         /\ ~Contains(key_lower, "hack")
         /\ ~Contains(key_lower, "bulgarian split")
    ELSE IF Contains(exercise_name_lower, "bench")
    THEN Contains(key_lower, "bench")
    ELSE IF Contains(exercise_name_lower, "deadlift")
    THEN Contains(key_lower, "deadlift")
    ELSE exercise_name_lower = key_lower

MatchesT ==
    [q \in Queries |->
        [n \in {DetailNames[i] : i \in 1..Len(DetailNames)} |->
            matches(LowerT[q], LowerT[n])]]

\* matching_exercises: the keys of prs that match, in dict order
RECURSIVE matching_exercises(_, _)
matching_exercises(prs, exercise_name) ==
    IF prs = <<>> THEN <<>>
    ELSE IF MatchesT[exercise_name][Head(prs).name]
    THEN <<Head(prs).name>> \o matching_exercises(Tail(prs), exercise_name)
    ELSE matching_exercises(Tail(prs), exercise_name)

\* lines 249-259
base_name(matching_exercise) ==
    IF Contains(lower(matching_exercise), "bench")
          \/ Contains(lower(matching_exercise), "barbell")
    THEN IF Contains(lower(matching_exercise), "incline")
         THEN "incline bench press"
         ELSE IF Contains(lower(matching_exercise), "decline")
         THEN "decline bench press"
         ELSE IF Contains(lower(matching_exercise), "db")
         THEN "db bench press"
         ELSE "bench press"
    ELSE lower(first_word(matching_exercise))

BaseNameT ==
    [n \in {DetailNames[i] : i \in 1..Len(DetailNames)} |-> base_name(n)]

\* a condensing that keeps the last record of a family, whatever its PRs
keep_last(condensed_prs, base, pr_data) ==
    IF ~(pr_data.weight.value > 0) THEN condensed_prs
    ELSE IF \A i \in 1..Len(condensed_prs) : condensed_prs[i].base_name # base
    THEN Append(condensed_prs, [base_name |-> base, pr_data |-> pr_data])
    ELSE [i \in 1..Len(condensed_prs) |->
            IF condensed_prs[i].base_name = base
            THEN [base_name |-> base, pr_data |-> pr_data]
            ELSE condensed_prs[i]]

\* lines 261-271: condensed_prs after one matching exercise
better(pr_data, kept) ==
    \/ pr_data.weight.value > kept.weight.value
    \/ /\ pr_data.weight.value = kept.weight.value
       /\ pr_data.reps.value > kept.reps.value
keep(condensed_prs, base, pr_data) ==
    IF ~(pr_data.weight.value > 0) THEN condensed_prs
    ELSE IF \A i \in 1..Len(condensed_prs) : condensed_prs[i].base_name # base
    THEN Append(condensed_prs, [base_name |-> base, pr_data |-> pr_data])
    ELSE [i \in 1..Len(condensed_prs) |->
            IF condensed_prs[i].base_name = base
                  /\ better(pr_data, condensed_prs[i].pr_data)
            THEN [base_name |-> base, pr_data |-> pr_data]
            ELSE condensed_prs[i]]

\* the loop of lines 247-271 over matching_exercises
RECURSIVE condense(_, _, _)
condense(condensed_prs, prs, matching) ==
    IF matching = <<>> THEN condensed_prs
    ELSE condense(keep(condensed_prs, BaseNameT[Head(matching)],
                       prs[PrIndex(prs, Head(matching))]),
                  prs, Tail(matching))

\* show_pr_details: what it matched and what its message box reports
show_pr_details(prs, exercise_name) ==
    IF matching_exercises(prs, exercise_name) = <<>>
    THEN [matching_exercises |-> <<>>, nodata |-> TRUE, condensed_prs |-> <<>>]
    ELSE [matching_exercises |-> matching_exercises(prs, exercise_name),
          nodata |-> FALSE,
          condensed_prs |->
              condense(<<>>, prs, matching_exercises(prs, exercise_name))]

\* lines 299-306: the (date, weight) points of a history; a date kept as a
\* string is parsed, a date object is taken as it is, anything else skipped
RECURSIVE history_points(_)
history_points(history) ==
    IF history = <<>> THEN <<>>
    ELSE IF Head(history).date.t \in {"str", "date"}
    THEN <<[date |-> Head(history).date.d, weight |-> Head(history).weight]>>
           \o history_points(Tail(history))
    ELSE history_points(Tail(history))

\* the inner loop of lines 295-306 for one requested name
RECURSIVE points_of_name(_, _)
points_of_name(prs, exercise_name) ==
    IF prs = <<>> THEN <<>>
    ELSE IF LowerT[exercise_name] = LowerT[Head(prs).name]
    THEN history_points(Head(prs).history)
           \o points_of_name(Tail(prs), exercise_name)
    ELSE points_of_name(Tail(prs), exercise_name)

\* the outer loop of line 294
RECURSIVE points_of_names(_, _)
points_of_names(prs, exercise_names) ==
    IF exercise_names = <<>> THEN <<>>
    ELSE points_of_name(prs, Head(exercise_names))
           \o points_of_names(prs, Tail(exercise_names))

\* the order of the tuples (date, weight)
point_le(a, b) ==
    a.date < b.date \/ (a.date = b.date /\ a.weight <= b.weight)

RECURSIVE insert_point(_, _)
insert_point(sorted_data, point) ==
    IF sorted_data = <<>> THEN <<point>>
    ELSE IF point_le(point, Head(sorted_data)) THEN <<point>> \o sorted_data
    ELSE <<Head(sorted_data)>> \o insert_point(Tail(sorted_data), point)

RECURSIVE sort_points(_)
sort_points(points) ==
    IF points = <<>> THEN <<>>
    ELSE insert_point(sort_points(Tail(points)), Head(points))

\* a sort that orders the dates and the weights each on their own
sorted_apart(points) ==
    [i \in 1..Len(points) |->
        [date |-> sort_points(points)[i].date,
         weight |-> sort_points([k \in 1..Len(points) |->
                                   [date |-> points[k].weight,
                                    weight |-> 0]])[i].date]]

\* sorted(zip(dates, weights))
sorted_data(points) == sort_points(points)

\* show_progress_graph: the points it plots, or the "no data" message
show_progress_graph(prs, exercise_names) ==
    IF points_of_names(prs, exercise_names) = <<>>
    THEN [nodata |-> TRUE, points |-> <<>>]
    ELSE [nodata |-> FALSE,
          points |-> sorted_data(points_of_names(prs, exercise_names))]

-----------------------------------------------------------------------------
(* Plan structure.                                                         *)

Day(label, date, exercises) ==
    [day |-> label, date |-> date, exercises |-> exercises]

\* Python list indexing with an int that may be negative
PyOK(list, i) == -Len(list) <= i /\ i < Len(list)
PyPos(list, i) == IF i >= 0 THEN i + 1 ELSE Len(list) + i + 1
PyGet(list, i) == list[PyPos(list, i)]

RemoveAt(list, p) == SubSeq(list, 1, p - 1) \o SubSeq(list, p + 1, Len(list))

\* list.index(x): the first position (1-based here) holding x
IndexOf(list, x) == CHOOSE i \in 1..Len(list) :
                       list[i] = x /\ \A j \in 1..(i - 1) : list[j] # x

DaysBefore(workouts, w) == Len(AllDays(SubSeq(workouts, 1, w - 1)))

\* a renumbering that starts again at 1 in every week
renumber_each_week(workouts) ==
    [w \in 1..Len(workouts) |->
        [d \in 1..Len(workouts[w]) |-> [workouts[w][d] EXCEPT !.day = d]]]

\* renumber_all_days: "Day k" for the k-th day in traversal order
renumber_all_days(workouts) ==
    [w \in 1..Len(workouts) |->
        [d \in 1..Len(workouts[w]) |->
            [workouts[w][d] EXCEPT !.day = DaysBefore(workouts, w) + d]]]

\* a chunking that drops the days left over after the last full week
RECURSIVE ChunkFullWeeks(_, _, _)
ChunkFullWeeks(restructured, week, workouts) ==
    IF workouts = <<>> THEN restructured
    ELSE IF Len(week) = 4
    THEN ChunkFullWeeks(Append(restructured, Append(week, Head(workouts))),
                        <<>>, Tail(workouts))
    ELSE ChunkFullWeeks(restructured, Append(week, Head(workouts)),
                        Tail(workouts))

\* restructure_workouts on a nested list (all elements lists)
RECURSIVE Chunk(_, _, _)
Chunk(restructured, week, workouts) ==
    IF workouts = <<>>
    THEN IF week # <<>> THEN Append(restructured, week) ELSE restructured
    ELSE LET week1 == Append(week, Head(workouts))
         IN IF Len(week1) = 5
            THEN Chunk(Append(restructured, week1), <<>>, Tail(workouts))
            ELSE Chunk(restructured, week1, Tail(workouts))

\* an input file: [nested |-> TRUE, data |-> weeks] or [nested |-> FALSE,
\* data |-> days]; an empty list counts as nested (all() of nothing)
restructure_workouts(input) ==
    IF input.nested \/ input.data = <<>> THEN input.data
    ELSE Chunk(<<>>, <<>>, input.data)

\* the guard  current_week <= len(workouts) and current_day < len(workouts[current_week - 1])
PositionOK(s) ==
    /\ s.current_week <= Len(s.workouts)
    /\ s.current_day < Len(s.workouts[s.current_week])

-----------------------------------------------------------------------------
(* Methods of WorkoutPlanner, as operators on self.  A method entered with *)
(* s.err set does nothing: the exception is already on its way out.        *)

Raise(s, e) == [s EXCEPT !.err = e]
Show(s, m) == IF s.err # "" THEN s ELSE [s EXCEPT !.msg = m]

\* calculate_muscle_engagement: replays the plan onto the muscle_recovery that
\* is there (it is not reset), then redraws
\* the days met by  for week_index in range(self.total_weeks)  before
\* self.workouts[week_index] runs off the list
WeeksInRange(s) ==
    AllDays(SubSeq(s.workouts, 1, Min2(s.total_weeks, Len(s.workouts))))
EngagePlan(s) ==
    [s EXCEPT !.muscle_recovery =
                 EngageDays(@, WeeksInRange(s), s.current_date)]
calculate_muscle_engagement(s) ==
    IF s.err # "" THEN s
    ELSE IF WeeksInRange(s) # <<>> /\ s.current_date.t # "date"
    THEN Raise(s, "TypeError")
    ELSE IF s.total_weeks > Len(s.workouts)
    THEN Raise(EngagePlan(s), "IndexError")
    ELSE update_muscle_visualization(EngagePlan(s))

\* update_volume_load: the total is only displayed
update_volume_load(s) == calculate_muscle_engagement(s)

\* the loop of load_workout_data over the viewed day's exercises (727-740):
\* update_prs, then the lookup self.prs[exercise['exercise']] and a tree row
RECURSIVE ShowExercises(_, _)
ShowExercise(s, exercise) ==
    IF exercise.exercise \notin PrNames(s.prs) THEN Raise(s, "KeyError")
    ELSE [s EXCEPT !.tree_rows = @ + 1]
ShowExercises(s, exercises) ==
    IF exercises = <<>> \/ s.err # "" THEN s
    ELSE ShowExercises(ShowExercise(update_prs(s, Head(exercises)),
                                    Head(exercises)),
                       Tail(exercises))

\* workout = self.workouts[self.current_week - 1][self.current_day]
Workout(s) == PyGet(s.workouts[s.current_week], s.current_day)
\* lines 709-723: the date of the viewed day becomes current_date, the tree
\* is cleared, muscle_recovery is reset and the plan replayed up to that date
ViewDate(workout) ==
    IF workout.date # NoDate THEN strptime(workout.date) ELSE DateObj(Today)
Replay(s, current_date) ==
    [s EXCEPT !.current_date = current_date,
              !.date_entry = current_date.d,
              !.tree_rows = 0,
              !.muscle_recovery =
                  EngageDays(initialize_muscle_recovery,
                             AllDays(s.workouts), current_date)]
\* lines 725-747
ShowDay(s, workout) ==
    update_muscle_visualization(
      update_volume_load(
        update_muscle_recovery(
          ShowExercises(calculate_current_fatigue(s), workout.exercises))))
LoadDay(s) ==
    IF ~PositionOK(s) THEN Show(s, "Invalid Week/Day")
    ELSE IF ~PyOK(s.workouts[s.current_week], s.current_day)
    THEN Raise(s, "IndexError")
    ELSE ShowDay(Replay(s, ViewDate(Workout(s))), Workout(s))
load_workout_data(s) ==
    IF s.err # "" THEN s
    ELSE IF s.workouts = <<>> THEN Show(s, "No Data")
    ELSE LoadDay([s EXCEPT !.total_weeks = Len(s.workouts)])

\* save_current_date: the date entry's day goes into the viewed day
save_current_date(s) ==
    IF s.err # "" THEN s
    ELSE IF PositionOK(s)
    THEN IF ~PyOK(s.workouts[s.current_week], s.current_day)
         THEN Raise(s, "IndexError")
         ELSE [s EXCEPT !.workouts[s.current_week]
                           [PyPos(s.workouts[s.current_week], s.current_day)]
                           .date = strftime(DateObj(s.date_entry))]
    ELSE s

next_day(s) ==
    LET s1 == save_current_date(s) IN
    IF s1.err # "" THEN s1
    ELSE IF s1.current_week > Len(s1.workouts) THEN Raise(s1, "IndexError")
    ELSE LET s2 ==
               IF s1.current_day < Len(s1.workouts[s1.current_week]) - 1
               THEN [s1 EXCEPT !.current_day = @ + 1]
               ELSE IF s1.current_week < Len(s1.workouts)
               THEN [s1 EXCEPT !.current_week = @ + 1, !.current_day = 0]
               ELSE s1
         IN load_workout_data(s2)

previous_day(s) ==
    LET s1 == save_current_date(s) IN
    IF s1.err # "" THEN s1
    ELSE LET s2 ==
               IF s1.current_day > 0
               THEN [s1 EXCEPT !.current_day = @ - 1]
               ELSE IF s1.current_week > 1
               THEN IF s1.current_week - 1 > Len(s1.workouts)
                    THEN Raise([s1 EXCEPT !.current_week = @ - 1], "IndexError")
                    ELSE [s1 EXCEPT
                            !.current_week = @ - 1,
                            !.current_day =
                                Len(s1.workouts[s1.current_week - 1]) - 1]
               ELSE s1
         IN load_workout_data(s2)

on_week_select(s, selected_week) ==
    IF selected_week # s.current_week
    THEN load_workout_data([s EXCEPT !.current_week = selected_week,
                                     !.current_day = 0])
    ELSE s

edit_day(s, day_index) ==
    load_workout_data([s EXCEPT !.current_day = day_index])

max_days_per_week == 7

\* an add_day that lets a week of max_days_per_week days take one more
add_day_past_max(s) ==
    IF s.current_week > Len(s.workouts) THEN Raise(s, "IndexError")
    ELSE IF Len(s.workouts[s.current_week]) > max_days_per_week
    THEN Show(s, "Maximum Days Reached")
    ELSE Show(load_workout_data(
                [s EXCEPT
                   !.workouts =
                       renumber_all_days(
                         [s.workouts EXCEPT ![s.current_week] =
                             Append(@, Day(0, strftime(DateObj(Today)), <<>>))]),
                   !.current_day = Len(s.workouts[s.current_week])]),
              "Day Added")

\* an add_day that dates the new day one day late
add_day_dated_late(s) ==
    IF s.current_week > Len(s.workouts) THEN Raise(s, "IndexError")
    ELSE IF Len(s.workouts[s.current_week]) >= max_days_per_week
    THEN Show(s, "Maximum Days Reached")
    ELSE Show(load_workout_data(
                [s EXCEPT
                   !.workouts =
                       renumber_all_days(
                         [s.workouts EXCEPT ![s.current_week] =
                             Append(@, Day(0,
                                           Today + DaysBefore(s.workouts,
                                                              s.current_week)
                                             + Len(s.workouts[s.current_week]) + 1,
                                           <<>>))]),
                   !.current_day = Len(s.workouts[s.current_week])]),
              "Day Added")

add_day(s) ==
    IF s.current_week > Len(s.workouts) THEN Raise(s, "IndexError")
    ELSE LET current_week_days == s.workouts[s.current_week] IN
    IF Len(current_week_days) >= max_days_per_week
    THEN Show(s, "Maximum Days Reached")
    ELSE LET new_day_number == DaysBefore(s.workouts, s.current_week)
                                 + Len(current_week_days) + 1
             new_day == Day(new_day_number,
                            strftime(DateObj(Today + (new_day_number - 1))),
                            <<>>)
             s1 == [s EXCEPT
                      !.workouts[s.current_week] = Append(@, new_day),
                      !.current_day = Len(current_week_days)]
             s2 == [s1 EXCEPT !.workouts = renumber_all_days(@)]
         IN Show(load_workout_data(s2), "Day Added")

add_exercise(s) ==
    IF PositionOK(s)
    THEN IF ~PyOK(s.workouts[s.current_week], s.current_day)
         THEN Raise(s, "IndexError")
         ELSE LET new_exercise == Exercise("New Exercise", "0", "0", "0")
                  s1 == [s EXCEPT
                           !.workouts[s.current_week]
                              [PyPos(s.workouts[s.current_week], s.current_day)]
                              .exercises = Append(@, new_exercise),
                           !.tree_rows = @ + 1]
              IN update_volume_load(s1)
    ELSE Show(s, "Invalid Week/Day")

\* remove_exercise with the tree's row index selected (0-based)
remove_exercise(s, index) ==
    IF PositionOK(s)
    THEN LET s1 == [s EXCEPT !.tree_rows = @ - 1] IN
         IF ~PyOK(s.workouts[s.current_week], s.current_day)
         THEN Raise(s1, "IndexError")
         ELSE LET p == PyPos(s.workouts[s.current_week], s.current_day)
                  exercises == s.workouts[s.current_week][p].exercises
              IN IF index >= Len(exercises) THEN Raise(s1, "IndexError")
                 ELSE update_volume_load(
                        [s1 EXCEPT !.workouts[s.current_week][p].exercises =
                                      RemoveAt(exercises, index + 1)])
    ELSE s

\* on_focus_out: the cell (exercise_index, column_name) of the tree was edited
on_focus_out(s, exercise_index, column_name, new_value) ==
    IF PositionOK(s)
    THEN IF ~PyOK(s.workouts[s.current_week], s.current_day)
         THEN Raise(s, "IndexError")
         ELSE LET p == PyPos(s.workouts[s.current_week], s.current_day)
                  exercises == s.workouts[s.current_week][p].exercises
              IN IF exercise_index >= Len(exercises)
                 THEN Raise(s, "IndexError")
                 ELSE LET old == exercises[exercise_index + 1]
                          exercise ==
                              CASE column_name = "exercise" ->
                                     [old EXCEPT !.exercise = new_value]
                                [] column_name = "sets" ->
                                     [old EXCEPT !.sets = new_value]
                                [] column_name = "reps" ->
                                     [old EXCEPT !.reps = new_value]
                                [] column_name = "weight" ->
                                     [old EXCEPT !.weight = new_value]
                          s1 == [s EXCEPT
                                   !.workouts[s.current_week][p]
                                      .exercises[exercise_index + 1] = exercise]
                          s2 == update_prs(s1, exercise)
                      IN IF exercise.exercise \notin PrNames(s2.prs)
                         THEN Raise(s2, "KeyError")
                         ELSE update_volume_load(s2)
    ELSE s

\* update_recovery: the body of the periodic tick; root.after is reached only
\* when nothing was raised
update_recovery(s) ==
    update_muscle_visualization(update_muscle_recovery(s))

\* load_data with the parsed file contents
load_data(s, input) ==
    LET workouts == restructure_workouts(input)
        s1 == [s EXCEPT !.workouts = workouts,
                        !.prs = initialize_prs(workouts),
                        !.current_week = 1,
                        !.current_day = 0]
    IN Show(load_workout_data(recalculate_prs(s1)), "Load Successful")

\* __init__ with the parsed contents of workouts.json or paste.txt
Construct(input) ==
    LET workouts == restructure_workouts(input)
        s0 == [workouts |-> workouts,
               total_weeks |-> Len(workouts),
               current_week |-> 1,
               current_day |-> 0,
               prs |-> initialize_prs(workouts),
               current_date |-> DateObj(Today),
               date_entry |-> Today,
               muscle_recovery |->
                   EngageAllDays(initialize_muscle_recovery, AllDays(workouts)),
               tree_rows |-> 0,
               err |-> "",
               msg |-> ""]
        \* create_ui ends with load_workout_data
        s1 == load_workout_data(s0)
        s2 == update_recovery(s1)
    IN recalculate_prs(s2)

-----------------------------------------------------------------------------
(* Remove-Day and Swap-Days dialogs.  Neither is modal: the main window    *)
(* stays live while they are open, and several can be open at once.  A     *)
(* Remove-Day dialog keeps the list object current_week_days and the       *)
(* labels day_options it was opened with.  The list is week `week` of the  *)
(* plan read by load number `gen`; once load_data has replaced             *)
(* self.workouts (gen < loads) the list is reachable from its dialogs      *)
(* only, and olen is its length.                                           *)

RemoveDialog(gen, week, day_options) ==
    [gen |-> gen, week |-> week, day_options |-> day_options, olen |-> 0]

Labels(week) == [i \in 1..Len(week) |-> week[i].day]

SameList(d, e) == d.gen = e.gen /\ d.week = e.week

\* len(current_week_days) as the dialog d sees it
DialogLen(s, d) ==
    IF d.gen = loads THEN Len(s.workouts[d.week]) ELSE d.olen

-----------------------------------------------------------------------------
(* The files the program is started on or loads.                           *)

Bench == Exercise("Bench Press", "3", "5", "100")
HeavySquat == Exercise("Squat", "10", "100", "100")
Imported == Exercise("Bench Press", "3", "5", "")

\* a saved plan of two weeks, each week numbering its days from 1
FileSaved ==
    [nested |-> TRUE,
     data |-> << <<Day(1, Today - 2, <<Bench>>), Day(2, Today, <<HeavySquat>>)>>,
                 <<Day(1, Today + 7, <<>>)>> >>]
\* a legacy text import: flat, undated, no weights
FileLegacy ==
    [nested |-> FALSE,
     data |-> <<Day(1, NoDate, <<Imported>>), Day(2, NoDate, <<>>)>>]
\* a plan whose first day has no date yet
FileUndatedFirst ==
    [nested |-> TRUE,
     data |-> << <<Day(1, NoDate, <<Bench>>), Day(2, Today - 2, <<>>)>> >>]
\* an empty plan
FileEmpty == [nested |-> TRUE, data |-> <<>>]
\* a plan whose first week is empty and whose next session lies ahead
FileEmptyWeek ==
    [nested |-> TRUE,
     data |-> << <<>>, <<Day(1, Today + 7, <<Bench>>)>> >>]

\* a plan whose only week is full: seven rest days, all dated today
FileFullWeek ==
    [nested |-> TRUE,
     data |-> << [d \in 1..max_days_per_week |-> Day(d, Today, <<>>)] >>]

\* a pasted text of two weeks of two days, each week headed Day 1, Day 2:
\* flat, undated, no weights
FilePasted ==
    [nested |-> FALSE,
     data |-> <<Day(1, NoDate, <<Imported>>),
                Day(2, NoDate, <<Exercise("Squat", "3", "5", "")>>),
                Day(1, NoDate, <<Exercise("Front Squat", "3", "5", "")>>),
                Day(2, NoDate, <<>>)>>]

\* a saved plan of one week with the same exercise on both of its days
FileTwoSessions ==
    [nested |-> TRUE,
     data |-> << <<Day(1, Today - 2, <<Bench>>), Day(2, Today, <<Bench>>)>> >>]

StartFiles == <<FileSaved, FileLegacy, FileUndatedFirst, FileEmpty, FileEmptyWeek>>
LoadFiles == <<FileSaved, FileLegacy, FileEmpty>>

\* what the user types into a cell, and picks in the date entry
EditNames == {"Front Squat"}
EditValues == {"", "100"}
PickDates == {Today + 1}

-----------------------------------------------------------------------------
(* The event loop: one action per handler.                                 *)

NoCall == [op |-> "-"]

\* a handler starts with no exception pending and no message box shown
Begin == [self EXCEPT !.err = "", !.msg = ""]

HistoryBounded(s) ==
    \A i \in 1..Len(s.prs) : Len(s.prs[i].history) <= MaxHist

\* the handler leaves the object as s
Becomes(s) == self' = s /\ HistoryBounded(s) /\ last' = NoCall

\* a gesture that is not counted
Views(s) == Becomes(s) /\ UNCHANGED edits

\* a gesture that adds to the plan or rewrites a field
Edits(s) == edits < MaxEdits /\ edits' = edits + 1 /\ Becomes(s)

NextDay ==
    /\ Views(next_day(Begin))
    /\ UNCHANGED <<remove_dialogs, swap_dialogs, overview, timer, loads>>

PreviousDay ==
    /\ Views(previous_day(Begin))
    /\ UNCHANGED <<remove_dialogs, swap_dialogs, overview, timer, loads>>

\* the week dropdown lists Week 1 .. Week len(workouts)
WeekSelect ==
    /\ \E selected_week \in 1..Len(self.workouts) :
          Views(on_week_select(Begin, selected_week))
    /\ UNCHANGED <<remove_dialogs, swap_dialogs, overview, timer, loads>>

\* show_week_overview: one Edit button per day of the viewed week; the window
\* stays open
ShowWeekOverview ==
    /\ self.current_week <= Len(self.workouts)
    /\ overview' = Max2(overview, Len(self.workouts[self.current_week]))
    /\ Views(Begin)
    /\ UNCHANGED <<remove_dialogs, swap_dialogs, timer, loads>>

\* an Edit button of an overview window
EditDay ==
    /\ \E day_index \in 0..(overview - 1) : Views(edit_day(Begin, day_index))
    /\ UNCHANGED <<remove_dialogs, swap_dialogs, overview, timer, loads>>

\* the date entry: the user picks a date
PickDate ==
    /\ \E d \in PickDates : Edits([Begin EXCEPT !.date_entry = d])
    /\ UNCHANGED <<remove_dialogs, swap_dialogs, overview, timer, loads>>

\* the Save Date button
SaveDate ==
    /\ Views(save_current_date(Begin))
    /\ UNCHANGED <<remove_dialogs, swap_dialogs, overview, timer, loads>>

AddDay ==
    /\ Edits(add_day(Begin))
    /\ UNCHANGED <<remove_dialogs, swap_dialogs, overview, timer, loads>>

OpenDialogs == Len(remove_dialogs) + Len(swap_dialogs)

\* a remove_day that opens its dialog on a week of one day
RemoveDayOfOne ==
    /\ OpenDialogs < MaxDialogs
    /\ IF self.current_week > Len(self.workouts)
       THEN Views(Raise(Begin, "IndexError")) /\ UNCHANGED remove_dialogs
       ELSE IF Len(self.workouts[self.current_week]) < 1
            THEN Views(Show(Begin, "Cannot Remove Day"))
                 /\ UNCHANGED remove_dialogs
            ELSE /\ Views(Begin)
                 /\ remove_dialogs' =
                       Append(remove_dialogs,
                              RemoveDialog(loads, self.current_week,
                                           Labels(self.workouts[self.current_week])))
    /\ UNCHANGED <<swap_dialogs, overview, timer, loads>>

\* remove_day: the Remove Day button; opens a dialog unless it warns or raises
RemoveDay ==
    /\ OpenDialogs < MaxDialogs
    /\ IF self.current_week > Len(self.workouts)
       THEN Views(Raise(Begin, "IndexError")) /\ UNCHANGED remove_dialogs
       ELSE LET current_week_days == self.workouts[self.current_week] IN
            IF Len(current_week_days) <= 1
            THEN Views(Show(Begin, "Cannot Remove Day"))
                 /\ UNCHANGED remove_dialogs
            ELSE /\ Views(Begin)
                 /\ remove_dialogs' =
                       Append(remove_dialogs,
                              RemoveDialog(loads, self.current_week,
                                           Labels(current_week_days)))
    /\ UNCHANGED <<swap_dialogs, overview, timer, loads>>

\* perform_remove of dialog d with the option at position sel selected
perform_remove(s, d, sel) ==
    LET day_index == IndexOf(d.day_options, d.day_options[sel]) - 1
        n == DialogLen(s, d)
    IN IF day_index >= n THEN Raise(s, "IndexError")
       ELSE LET s1 == IF d.gen = loads
                      THEN [s EXCEPT !.workouts[d.week] =
                                        RemoveAt(@, day_index + 1)]
                      ELSE s
                s2 == [s1 EXCEPT !.workouts = renumber_all_days(@)]
                s3 == IF s2.current_day >= n - 1
                      THEN [s2 EXCEPT !.current_day = n - 2]
                      ELSE s2
            IN Show(load_workout_data(s3), "Day Removed")

\* the Remove button of an open dialog
PerformRemove ==
    /\ \E k \in 1..Len(remove_dialogs) :
         LET d == remove_dialogs[k] IN
         \E sel \in 1..Len(d.day_options) :
            LET s == perform_remove(Begin, d, sel)
                popped == IndexOf(d.day_options, d.day_options[sel]) - 1
                             < DialogLen(Begin, d)
                rest == [i \in 1..Len(remove_dialogs) |->
                           IF popped /\ d.gen # loads
                                     /\ SameList(remove_dialogs[i], d)
                           THEN [remove_dialogs[i] EXCEPT !.olen = @ - 1]
                           ELSE remove_dialogs[i]]
            IN /\ Views(s)
               /\ remove_dialogs' =
                     IF s.err = "" THEN RemoveAt(rest, k) ELSE rest
    /\ UNCHANGED <<swap_dialogs, overview, timer, loads>>

\* swap_days: the Swap Days button; day_options[1] raises on a week of one day
SwapDays ==
    /\ OpenDialogs < MaxDialogs
    /\ IF self.current_week > Len(self.workouts)
       THEN Views(Raise(Begin, "IndexError")) /\ UNCHANGED swap_dialogs
       ELSE IF Len(self.workouts[self.current_week]) < 2
       THEN Views(Raise(Begin, "IndexError")) /\ UNCHANGED swap_dialogs
       ELSE /\ Views(Begin)
            /\ swap_dialogs' =
                  Append(swap_dialogs, Labels(self.workouts[self.current_week]))
    /\ UNCHANGED <<remove_dialogs, overview, timer, loads>>

\* a swap that exchanges the exercises of the two days and leaves each date
\* with its position
perform_swap_exercises(s, day_options, sel1, sel2) ==
    LET day1_index == IndexOf(day_options, day_options[sel1]) - 1
        day2_index == IndexOf(day_options, day_options[sel2]) - 1
    IN IF day1_index = day2_index THEN s
       ELSE IF s.current_week > Len(s.workouts) THEN Raise(s, "IndexError")
       ELSE LET week == s.workouts[s.current_week] IN
            IF day1_index >= Len(week) \/ day2_index >= Len(week)
            THEN Raise(s, "IndexError")
            ELSE LET swapped ==
                         [week EXCEPT
                            ![day1_index + 1].exercises =
                                week[day2_index + 1].exercises,
                            ![day2_index + 1].exercises =
                                week[day1_index + 1].exercises]
                     s1 == [s EXCEPT !.workouts[s.current_week] = swapped]
                     s2 == [s1 EXCEPT !.workouts = renumber_all_days(@)]
                 IN Show(load_workout_data(s2), "Swap Successful")

\* perform_swap with the options at positions sel1 and sel2 selected
perform_swap(s, day_options, sel1, sel2) ==
    LET day1_index == IndexOf(day_options, day_options[sel1]) - 1
        day2_index == IndexOf(day_options, day_options[sel2]) - 1
    IN IF day1_index = day2_index THEN s
       ELSE IF s.current_week > Len(s.workouts) THEN Raise(s, "IndexError")
       ELSE LET week == s.workouts[s.current_week] IN
            IF day1_index >= Len(week) \/ day2_index >= Len(week)
            THEN Raise(s, "IndexError")
            ELSE LET swapped ==
                         [week EXCEPT ![day1_index + 1] = week[day2_index + 1],
                                      ![day2_index + 1] = week[day1_index + 1]]
                     s1 == [s EXCEPT !.workouts[s.current_week] = swapped]
                     s2 == [s1 EXCEPT !.workouts = renumber_all_days(@)]
                 IN Show(load_workout_data(s2), "Swap Successful")

\* the Swap button of an open dialog; the dialog is destroyed only after a swap
PerformSwap ==
    /\ \E k \in 1..Len(swap_dialogs) :
         \E sel1, sel2 \in 1..Len(swap_dialogs[k]) :
            LET s == perform_swap(Begin, swap_dialogs[k], sel1, sel2)
                same == IndexOf(swap_dialogs[k], swap_dialogs[k][sel1])
                           = IndexOf(swap_dialogs[k], swap_dialogs[k][sel2])
            IN /\ Views(s)
               /\ swap_dialogs' =
                     IF s.err = "" /\ ~same THEN RemoveAt(swap_dialogs, k)
                     ELSE swap_dialogs
    /\ UNCHANGED <<remove_dialogs, overview, timer, loads>>

\* the user closes a dialog window
CloseDialog ==
    /\ \/ /\ \E k \in 1..Len(remove_dialogs) :
                remove_dialogs' = RemoveAt(remove_dialogs, k)
          /\ UNCHANGED swap_dialogs
       \/ /\ \E k \in 1..Len(swap_dialogs) :
                swap_dialogs' = RemoveAt(swap_dialogs, k)
          /\ UNCHANGED remove_dialogs
    /\ UNCHANGED <<self, overview, timer, loads, edits, last>>

AddExercise ==
    /\ Edits(add_exercise(Begin))
    /\ UNCHANGED <<remove_dialogs, swap_dialogs, overview, timer, loads>>

\* a row of the tree is selected
RemoveExercise ==
    /\ \E index \in 0..(self.tree_rows - 1) :
          Edits(remove_exercise(Begin, index))
    /\ UNCHANGED <<remove_dialogs, swap_dialogs, overview, timer, loads>>

\* a cell of a row of the tree was edited
FocusOut ==
    /\ \E exercise_index \in 0..(self.tree_rows - 1) :
          \/ \E new_value \in EditNames :
                Edits(on_focus_out(Begin, exercise_index, "exercise", new_value))
          \/ \E column_name \in {"sets", "reps", "weight"}, new_value \in EditValues :
                Edits(on_focus_out(Begin, exercise_index, column_name, new_value))
    /\ UNCHANGED <<remove_dialogs, swap_dialogs, overview, timer, loads>>

\* the 24-hour timer fires: update_recovery runs and, unless it raised,
\* schedules itself again
Tick ==
    /\ timer
    /\ LET s == update_recovery(Begin)
       IN Views(s) /\ timer' = (s.err = "")
    /\ UNCHANGED <<remove_dialogs, swap_dialogs, overview, loads>>

\* load_data: the dialogs that are open keep the week lists of the old plan
LoadData ==
    /\ loads' = loads + 1
    /\ \E i \in 1..Len(LoadFiles) : Edits(load_data(Begin, LoadFiles[i]))
    /\ remove_dialogs' =
          [i \in 1..Len(remove_dialogs) |->
              IF remove_dialogs[i].gen = loads
              THEN [remove_dialogs[i] EXCEPT
                      !.olen = Len(self.workouts[remove_dialogs[i].week])]
              ELSE remove_dialogs[i]]
    /\ UNCHANGED <<swap_dialogs, overview, timer>>

\* a method is called on its own: last records the call
Calls(s, call) ==
    self' = s /\ HistoryBounded(s) /\ last' = call /\ UNCHANGED edits

\* what update_prs is called with
PrExercises == {"Squat"}
PrWeights == {"x", "5", "10"}
PrReps == {"x", "3", "5"}

\* update_prs(exercise), as on_focus_out and the loops of load_workout_data
\* and recalculate_prs call it
UpdatePrs ==
    /\ \E n \in PrExercises, r \in PrReps, w \in PrWeights :
          Calls(update_prs(Begin, Exercise(n, "3", r, w)),
                [op |-> "update_prs", exercise |-> Exercise(n, "3", r, w)])
    /\ UNCHANGED <<remove_dialogs, swap_dialogs, overview, timer, loads>>

\* calculate_load(exercise): it returns a number and assigns nothing
CalculateLoad ==
    /\ \E s \in Values, r \in Values, w \in Values :
          last' = [op |-> "calculate_load",
                   exercise |-> Exercise("Bench Press", s, r, w),
                   result |-> calculate_load(Exercise("Bench Press", s, r, w))]
    /\ UNCHANGED <<self, remove_dialogs, swap_dialogs, overview, timer, loads,
                   edits>>

\* what engage_muscles is called with
EngageSets == {"3", "100"}
EngageReps == {"x", "5", "100"}
EngageWeights == {"0", "2.5", "100"}
EngageDates == {Today - 2, Today}

\* engage_muscles(exercise, workout_date), as the replay loops of
\* load_workout_data and calculate_muscle_engagement call it
EngageMuscles ==
    /\ edits < MaxEdits
    /\ edits' = edits + 1
    /\ \E n \in Names, s \in EngageSets, r \in EngageReps, w \in EngageWeights,
          d \in EngageDates :
          /\ self' = [Begin EXCEPT !.muscle_recovery =
                         engage_muscles(@, Exercise(n, s, r, w), DateObj(d))]
          /\ last' = [op |-> "engage_muscles",
                      exercise |-> Exercise(n, s, r, w),
                      workout_date |-> DateObj(d),
                      load |-> calculate_load(Exercise(n, s, r, w))]
    /\ UNCHANGED <<remove_dialogs, swap_dialogs, overview, timer, loads>>

\* the object as __init__ has it on reaching self.update_recovery() (line
\* 166): every day of the plan engaged (164), then create_ui (165), whose
\* load_workout_data resets and replays unless the position is invalid
Created(input) ==
    load_workout_data(
      [workouts |-> restructure_workouts(input),
       total_weeks |-> Len(restructure_workouts(input)),
       current_week |-> 1,
       current_day |-> 0,
       prs |-> initialize_prs(restructure_workouts(input)),
       current_date |-> DateObj(Today),
       date_entry |-> Today,
       muscle_recovery |->
           EngageAllDays(initialize_muscle_recovery,
                         AllDays(restructure_workouts(input))),
       tree_rows |-> 0,
       err |-> "",
       msg |-> ""])

\* the objects the decay steps run on: the one the 24-hour timer finds, and
\* the one under construction at line 166
DecaySites ==
    {Begin} \cup {Created(StartFiles[i]) : i \in 1..Len(StartFiles)}

\* calculate_current_fatigue(), as load_workout_data and
\* update_muscle_visualization call it
CalculateCurrentFatigue ==
    /\ \E s \in DecaySites :
          /\ s.current_date.t = "date"
          /\ last' = [op |-> "calculate_current_fatigue",
                      current_date |-> s.current_date,
                      muscle_recovery |-> s.muscle_recovery,
                      result |-> calculate_current_fatigue(s).muscle_recovery]
    /\ UNCHANGED <<self, remove_dialogs, swap_dialogs, overview, timer, loads,
                   edits>>

\* update_muscle_recovery(), as load_workout_data and update_recovery call it
UpdateMuscleRecovery ==
    /\ \E s \in DecaySites :
          /\ s.current_date.t = "date"
          /\ last' = [op |-> "update_muscle_recovery",
                      current_date |-> s.current_date,
                      muscle_recovery |-> s.muscle_recovery,
                      result |-> update_muscle_recovery(s).muscle_recovery]
    /\ UNCHANGED <<self, remove_dialogs, swap_dialogs, overview, timer, loads,
                   edits>>

\* the plans renumber_all_days is called on: up to MaxWeeks weeks of up to
\* MaxWeekLen days each, the days carrying any labels
MaxWeeks == 2
MaxWeekLen == 2
SomeDays ==
    {Day(1, NoDate, <<>>), Day(1, Today, <<Bench>>), Day(3, Today, <<Bench>>)}
SeqsUpTo(S, n) == UNION {[1..k -> S] : k \in 0..n}
SomePlans == SeqsUpTo(SeqsUpTo(SomeDays, MaxWeekLen), MaxWeeks)

\* renumber_all_days(), as add_day, perform_remove and perform_swap call it
RenumberAllDays ==
    /\ \E workouts \in SomePlans :
          last' = [op |-> "renumber_all_days",
                   workouts |-> workouts,
                   result |-> renumber_all_days(workouts)]
    /\ UNCHANGED <<self, remove_dialogs, swap_dialogs, overview, timer, loads,
                   edits>>

\* a calculate_rpe without the drop of week 7
calculate_rpe_rising(week) ==
    IF week <= 7 THEN 600 + (week - 1) * 45
    ELSE 750 + (week - 8) * 45

\* calculate_rpe(week), in tenths of a percent
calculate_rpe(week) ==
    IF week <= 6 THEN 600 + (week - 1) * 45
    ELSE IF week = 7 THEN 700
    ELSE 750 + (week - 8) * 45

\* calculate_rpe(week), as load_workout_data calls it for the RPE label
MaxRpeWeek == 12
CalculateRpe ==
    /\ \E week \in 1..MaxRpeWeek :
          last' = [op |-> "calculate_rpe", week |-> week,
                   result |-> calculate_rpe(week)]
    /\ UNCHANGED <<self, remove_dialogs, swap_dialogs, overview, timer, loads,
                   edits>>

\* the PR maps the displays are shown on: update_prs called once for each of
\* up to MaxPrs of the names, in the order of DetailNames
MaxPrs == 3
PrEntries == {<<"0", "5">>, <<"5", "3">>, <<"5", "5">>, <<"10", "3">>}
RECURSIVE BuildPrs(_, _, _)
BuildPrs(prs, k, entries) ==
    IF k > Len(DetailNames) THEN prs
    ELSE IF k \in DOMAIN entries
    THEN BuildPrs(update_prs_of(prs, DateStr(Today),
                                Exercise(DetailNames[k], "3", entries[k][2],
                                         entries[k][1])),
                  k + 1, entries)
    ELSE BuildPrs(prs, k + 1, entries)

\* the Show ... PR Details buttons
ShowPrDetails ==
    /\ \E exercise_name \in Queries :
          last' = [op |-> "show_pr_details",
                   exercise_name |-> exercise_name,
                   result |-> show_pr_details(self.prs, exercise_name)]
    /\ self' = Show(Begin, "PR Details")
    /\ UNCHANGED <<remove_dialogs, swap_dialogs, overview, timer, loads, edits>>

\* the histories the graphs are drawn from: up to MaxCalls calls of
\* update_prs, on dates kept as strings (after recalculate_prs) and as date
\* objects (after load_workout_data)
MaxCalls == 3
GraphExercises == {"Squat", "Front Squat", "Hack Squat", "Bench Press", "Deadlift"}
GraphDates == {DateStr(Today - 2), DateObj(Today), DateStr(Today + 1)}
GraphWeights == {"5", "10"}
GraphCalls ==
    [exercise : GraphExercises, date : GraphDates, weight : GraphWeights]
RECURSIVE UpdatePrsCalls(_, _)
UpdatePrsCalls(prs, calls) ==
    IF calls = <<>> THEN prs
    ELSE UpdatePrsCalls(
           update_prs_of(prs, Head(calls).date,
                         Exercise(Head(calls).exercise, "3", "5",
                                  Head(calls).weight)),
           Tail(calls))

\* what the Show ... Progress Graph buttons ask for (lines 499-501)
GraphRequests ==
    {<<"squat", "back squat", "front squat">>,
     <<"bench press", "barbell bench press">>,
     <<"Deadlift">>}

\* the Show ... Progress Graph buttons
ShowProgressGraph ==
    /\ \E exercise_names \in GraphRequests :
          last' = [op |-> "show_progress_graph",
                   exercise_names |-> exercise_names,
                   result |-> show_progress_graph(self.prs, exercise_names)]
    /\ self' = Begin
    /\ UNCHANGED <<remove_dialogs, swap_dialogs, overview, timer, loads, edits>>

\* what restructure_workouts is called with: the nested plans, and flat
\* lists of up to MaxFlat days
MaxFlat == 12
FlatDays(n, first, exercises) ==
    [k \in 1..n |-> Day(first + k - 1, NoDate, exercises)]
NestedInputs == {[nested |-> TRUE, data |-> plan] : plan \in SomePlans}
FlatInputs ==
    {[nested |-> FALSE, data |-> FlatDays(n, first, exercises)] :
        n \in 0..MaxFlat, first \in {1, 3}, exercises \in {<<>>, <<Imported>>}}

\* restructure_workouts(workouts), as __init__ and load_data call it
Restructures(input) ==
    last' = [op |-> "restructure_workouts",
             input |-> input,
             result |-> restructure_workouts(input)]
RestructureWorkouts ==
    /\ \/ \E input \in NestedInputs : Restructures(input)
       \/ \E input \in FlatInputs : Restructures(input)
    /\ UNCHANGED <<self, remove_dialogs, swap_dialogs, overview, timer, loads,
                   edits>>

Init ==
    /\ \E i \in 1..Len(StartFiles) : self = Construct(StartFiles[i])
    /\ remove_dialogs = <<>>
    /\ swap_dialogs = <<>>
    /\ overview = 0
    /\ timer = TRUE
    /\ loads = 0
    /\ edits = 0
    /\ last = NoCall

\* viewing and navigating
\* the program started on the plan of one full week
InitFullWeek ==
    /\ self = Construct(FileFullWeek)
    /\ remove_dialogs = <<>>
    /\ swap_dialogs = <<>>
    /\ overview = 0
    /\ timer = TRUE
    /\ loads = 0
    /\ edits = 0
    /\ last = NoCall

\* the program started on the pasted text
InitPasted ==
    /\ self = Construct(FilePasted)
    /\ remove_dialogs = <<>>
    /\ swap_dialogs = <<>>
    /\ overview = 0
    /\ timer = TRUE
    /\ loads = 0
    /\ edits = 0
    /\ last = NoCall

\* the program started on the plan with two sessions of one exercise
InitTwoSessions ==
    /\ self = Construct(FileTwoSessions)
    /\ remove_dialogs = <<>>
    /\ swap_dialogs = <<>>
    /\ overview = 0
    /\ timer = TRUE
    /\ loads = 0
    /\ edits = 0
    /\ last = NoCall

\* the program with PRs recorded for some of DetailNames
InitPrs ==
    /\ \E S \in SUBSET (1..Len(DetailNames)) :
          /\ Cardinality(S) <= MaxPrs
          /\ \E entries \in [S -> PrEntries] :
                self = [Construct(FileEmpty) EXCEPT
                          !.prs = BuildPrs(<<>>, 1, entries)]
    /\ remove_dialogs = <<>>
    /\ swap_dialogs = <<>>
    /\ overview = 0
    /\ timer = TRUE
    /\ loads = 0
    /\ edits = 0
    /\ last = NoCall

\* the program with a history of update_prs calls
InitHistory ==
    /\ \E calls \in SeqsUpTo(GraphCalls, MaxCalls) :
          self = [Construct(FileEmpty) EXCEPT
                    !.prs = UpdatePrsCalls(<<>>, calls)]
    /\ remove_dialogs = <<>>
    /\ swap_dialogs = <<>>
    /\ overview = 0
    /\ timer = TRUE
    /\ loads = 0
    /\ edits = 0
    /\ last = NoCall

Navigation ==
    \/ NextDay
    \/ PreviousDay
    \/ WeekSelect
    \/ ShowWeekOverview
    \/ EditDay
    \/ PickDate
    \/ SaveDate
    \/ Tick

\* the days of the plan: adding, removing, swapping, loading a file
Structure ==
    \/ AddDay
    \/ RemoveDay
    \/ PerformRemove
    \/ SwapDays
    \/ PerformSwap
    \/ CloseDialog
    \/ LoadData

\* the exercises of the viewed day
Editing ==
    \/ AddExercise
    \/ RemoveExercise
    \/ FocusOut

Next == Navigation \/ Structure \/ Editing

Spec == Init /\ [][Next]_vars

\* the program while the user only looks at the plan
SpecView == Init /\ [][Navigation]_vars

\* the program while the user rearranges days and loads files
SpecDays == Init /\ [][NextDay \/ PreviousDay \/ Structure]_vars

\* the program while the user edits the exercises of the days
SpecEdit == Init /\ [][NextDay \/ PreviousDay \/ Editing]_vars

\* the PR tracker: update_prs called with any exercise, between views of the
\* days (which change current_date and call update_prs themselves)
SpecPR == Init /\ [][UpdatePrs \/ NextDay]_vars

\* the load calculator called with any entry
SpecLoad == Init /\ [][CalculateLoad]_vars

\* engage_muscles called between views of the days of the plan
SpecEngage == Init /\ [][EngageMuscles \/ NextDay \/ PreviousDay]_vars

\* the two decay steps called between views of the days of the plan
SpecDecay ==
    Init /\ [][CalculateCurrentFatigue \/ UpdateMuscleRecovery
                 \/ NextDay \/ PreviousDay]_vars

\* days added to and removed from a week that starts full
SpecFullWeek ==
    InitFullWeek
    /\ [][NextDay \/ PreviousDay \/ AddDay \/ RemoveDay \/ PerformRemove
             \/ CloseDialog]_vars

\* restructure_workouts called on any input
SpecRestructure == Init /\ [][RestructureWorkouts]_vars

\* days swapped in a plan whose days engage the same muscles
SpecOrder ==
    InitTwoSessions
    /\ [][Navigation \/ AddDay \/ SwapDays \/ PerformSwap
             \/ CloseDialog]_vars

\* days swapped in the plan read from a pasted text
SpecSwap ==
    InitPasted
    /\ [][NextDay \/ PreviousDay \/ SwapDays \/ PerformSwap
             \/ CloseDialog]_vars

\* calculate_rpe called between views of the days of the plan
SpecRpe == Init /\ [][CalculateRpe \/ NextDay \/ PreviousDay]_vars

\* the PR details shown on any PR map
SpecDetails == InitPrs /\ [][ShowPrDetails]_vars

\* the progress graphs drawn from any history
SpecGraph == InitHistory /\ [][ShowProgressGraph]_vars

\* renumber_all_days called on any plan
SpecRenumber == Init /\ [][RenumberAllDays]_vars

-----------------------------------------------------------------------------
(* The fatigue a single recompute yields: zero fatigue, one engage per      *)
(* exercise of each day dated on or before the date, in plan order, then   *)
(* one decay for that date.                                                *)

recomputeUpTo(workouts, cutoffDate) ==
    current_fatigue_of(EngageDays(initialize_muscle_recovery,
                                  AllDays(workouts), cutoffDate),
                       cutoffDate)

FatigueIs(s, mr) ==
    \A muscle \in Muscles : s.muscle_recovery[muscle].fatigue = mr[muscle].fatigue

\* the handler ran to its end on a valid viewed day: nothing raised, no
\* message box, and current_date a date
Completed(s) == s.err = "" /\ s.msg = "" /\ s.current_date.t = "date"

\* C1: when load_workout_data completes for a valid viewed day dated D (here
\* as the whole of next_day, previous_day or edit_day), every muscle's
\* fatigue is what one reset, one engage per exercise of each day dated on
\* or before D in plan order, and one decay for D yield.
C1_LoadRecomputesOnce ==
    [][(NextDay \/ PreviousDay \/ EditDay) /\ Completed(self')
         => FatigueIs(self', recomputeUpTo(self'.workouts, self'.current_date))]_vars

\* C2: in every reachable state every muscle's fatigue is at least 0 and at
\* most FATIGUE_MAX.
C2_FatigueInRange ==
    \A muscle \in DOMAIN self.muscle_recovery :
        /\ 0 <= self.muscle_recovery[muscle].fatigue
        /\ self.muscle_recovery[muscle].fatigue <= FATIGUE_MAX

\* C3: recalculate_prs is idempotent: called twice in a row from any
\* reachable state it leaves the PR state it leaves when called once.
C3_RecalculateIdempotent ==
    recalculate_prs(recalculate_prs(Begin)).prs = recalculate_prs(Begin).prs

NoEmptyWeek(s) == \A w \in 1..Len(s.workouts) : s.workouts[w] # <<>>

\* C4: every week of the plan keeps at least one day: no step, whatever the
\* Remove-Day dialogs open and the order they are confirmed in, takes a plan
\* whose weeks all hold a day to a plan with an empty week.
C4_WeekKeepsADay == [][NoEmptyWeek(self) => NoEmptyWeek(self')]_vars

-----------------------------------------------------------------------------
(* PR tracker claims.                                                      *)

\* the reps of the history entries made at the given weight
RepsAt(history, weight) ==
    {history[k].reps : k \in {j \in 1..Len(history) : history[j].weight = weight}}

\* C5: after any sequence of update_prs calls, the stored reps PR of an
\* exercise is the maximum reps among its history entries whose weight
\* equals the stored weight PR.
C5_RepsPrIsBestAtBestWeight ==
    \A i \in 1..Len(self.prs) :
        RepsAt(self.prs[i].history, self.prs[i].weight.value) # {}
        => /\ self.prs[i].reps.value
                \in RepsAt(self.prs[i].history, self.prs[i].weight.value)
           /\ \A r \in RepsAt(self.prs[i].history, self.prs[i].weight.value) :
                 r <= self.prs[i].reps.value

\* the exercise names that have a PR before or after a step
Tracked(s, s2) == PrNames(s.prs) \cup PrNames(s2.prs)
\* the step was a call update_prs(exercise) for this name that parsed
CallFor(call, name) ==
    /\ call.op = "update_prs"
    /\ call.exercise.exercise = name
    /\ FloatParsesT[call.exercise.weight]
    /\ IntParsesT[call.exercise.reps]
CallWeight(call) == FloatValueT[call.exercise.weight]
CallReps(call) == IntValueT[call.exercise.reps]

\* C6: across update_prs calls the weight PR value of an exercise never
\* decreases, and the weight PR (value and date) changes only in a call for
\* that exercise whose weight is strictly greater than the stored weight PR.
C6_WeightPrOnlyRises ==
    [][\A name \in Tracked(self, self') :
         /\ StoredPr(self'.prs, name).weight.value
               >= StoredPr(self.prs, name).weight.value
         /\ last'.op = "update_prs"
              /\ StoredPr(self'.prs, name).weight # StoredPr(self.prs, name).weight
            => /\ CallFor(last', name)
               /\ CallWeight(last') > StoredPr(self.prs, name).weight.value
               /\ StoredPr(self'.prs, name).weight.value = CallWeight(last')]_vars

\* an update_prs call met a weight equal to the weight PR set on another
\* date, and left that PR as it was
C6_EqualWeightSeen ==
    /\ last.op = "update_prs"
    /\ CallFor(last, last.exercise.exercise)
    /\ StoredPr(self.prs, last.exercise.exercise).weight.value = CallWeight(last)
    /\ StoredPr(self.prs, last.exercise.exercise).weight.date # self.current_date

\* C7: across update_prs calls the reps PR of an exercise changes only in a
\* call for that exercise whose weight equals the weight PR as it stands
\* after the call and whose reps is strictly greater than the stored reps
\* PR; in every other call its value and date stay, so it never decreases.
C7_RepsPrOnlyRises ==
    [][\A name \in Tracked(self, self') :
         /\ StoredPr(self'.prs, name).reps.value
               >= StoredPr(self.prs, name).reps.value
         /\ last'.op = "update_prs"
            => IF /\ CallFor(last', name)
                  /\ CallWeight(last') = StoredPr(self'.prs, name).weight.value
                  /\ CallReps(last') > StoredPr(self.prs, name).reps.value
               THEN StoredPr(self'.prs, name).reps
                      = [value |-> CallReps(last'), date |-> self.current_date]
               ELSE StoredPr(self'.prs, name).reps
                      = StoredPr(self.prs, name).reps]_vars

\* an update_prs call at a weight below the weight PR brought more reps than
\* the reps PR, and the reps PR stayed
C7_MoreRepsBelowBestWeight ==
    /\ last.op = "update_prs"
    /\ CallFor(last, last.exercise.exercise)
    /\ CallWeight(last) < StoredPr(self.prs, last.exercise.exercise).weight.value
    /\ CallReps(last) > StoredPr(self.prs, last.exercise.exercise).reps.value

-----------------------------------------------------------------------------
(* Load calculator claim.                                                  *)

\* the texts of Values that read as an integer, with the integer
IntegerTexts == "0" :> 0 @@ "3" :> 3 @@ "5" :> 5 @@ "-5" :> (-5) @@ "10" :> 10
                @@ "100" :> 100
\* the texts of Values that read as a decimal, with the decimal in tenths
DecimalTexts == "0" :> 0 @@ "3" :> 30 @@ "5" :> 50 @@ "-5" :> (-50)
                @@ "10" :> 100 @@ "100" :> 1000 @@ "2.5" :> 25

\* C8: calculate_load returns 0 for an entry whose sets or reps does not
\* read as an integer or whose weight does not read as a decimal, and
\* sets * reps * weight otherwise (here in tenths).
C8_LoadIsProduct ==
    last.op = "calculate_load"
    => last.result =
         IF /\ last.exercise.sets \in DOMAIN IntegerTexts
            /\ last.exercise.reps \in DOMAIN IntegerTexts
            /\ last.exercise.weight \in DOMAIN DecimalTexts
         THEN IntegerTexts[last.exercise.sets] * IntegerTexts[last.exercise.reps]
                * DecimalTexts[last.exercise.weight]
         ELSE 0

\* calculate_load was called with a fractional weight and returned a load
C8_FractionalWeightLoaded ==
    /\ last.op = "calculate_load"
    /\ last.exercise.weight = "2.5"
    /\ last.result > 0

-----------------------------------------------------------------------------
(* Replay after an edit, and day labels.                                   *)

\* C9: after an exercise edit (on_focus_out), add_exercise or
\* remove_exercise, every muscle's fatigue is what a fresh recompute of the
\* plan up to the active date yields, however many replays went before.
C9_EditReplaysFromZero ==
    [][(FocusOut \/ AddExercise \/ RemoveExercise) /\ Completed(self')
         => FatigueIs(self', recomputeUpTo(self'.workouts, self'.current_date))]_vars

\* C10: in every reachable state the day labels, read week by week and day
\* by day, are Day 1, Day 2, ..., Day N.
C10_LabelsAreOneToN ==
    \A k \in 1..Len(AllDays(self.workouts)) : AllDays(self.workouts)[k].day = k

-----------------------------------------------------------------------------
(* Plan structure claims.                                                  *)

\* a day without its label
Unlabelled(day) == [date |-> day.date, exercises |-> day.exercises]

\* C11: renumber_all_days leaves the k-th day in traversal order labelled
\* "Day k" for k = 1..N, and changes nothing but the labels: the weeks keep
\* their lengths and every day its date and exercises.
C11_RenumberLabelsInOrder ==
    last.op = "renumber_all_days"
    => /\ Len(last.result) = Len(last.workouts)
       /\ \A w \in 1..Len(last.workouts) :
             /\ Len(last.result[w]) = Len(last.workouts[w])
             /\ \A d \in 1..Len(last.workouts[w]) :
                   Unlabelled(last.result[w][d]) = Unlabelled(last.workouts[w][d])
       /\ \A k \in 1..Len(AllDays(last.result)) : AllDays(last.result)[k].day = k

\* renumber_all_days was called on a plan of two weeks whose second week
\* holds a day, and that day is no longer labelled as it was
C11_SecondWeekRelabelled ==
    /\ last.op = "renumber_all_days"
    /\ Len(last.workouts) = 2
    /\ Len(last.workouts[1]) = 2
    /\ Len(last.workouts[2]) >= 1
    /\ last.workouts[2][1].day = 1
    /\ last.result[2][1].day = 3

\* the week on view
ActiveWeek(s) == s.workouts[s.current_week]

\* C12: add_day on an active week that already holds 7 days ends with the
\* warning and leaves the whole plan and the active week and day index as
\* they were.
C12_FullWeekRefusesDay ==
    [][(AddDay /\ self.current_week <= Len(self.workouts)
               /\ Len(ActiveWeek(self)) = 7)
       => /\ self'.msg = "Maximum Days Reached"
          /\ self'.err = ""
          /\ self'.workouts = self.workouts
          /\ self'.current_week = self.current_week
          /\ self'.current_day = self.current_day]_vars

\* add_day has just warned on a week of 7 days
C12_WarnedOnFullWeek ==
    /\ self.msg = "Maximum Days Reached"
    /\ Len(ActiveWeek(self)) = 7
    /\ edits = 1

\* C13: remove_day on an active week of exactly 1 day ends with the warning,
\* opens no dialog, and leaves the plan and the active week and day index as
\* they were.
C13_LastDayRefusesRemoval ==
    [][(RemoveDay /\ self.current_week <= Len(self.workouts)
                  /\ Len(ActiveWeek(self)) = 1)
       => /\ self'.msg = "Cannot Remove Day"
          /\ self'.err = ""
          /\ remove_dialogs' = remove_dialogs
          /\ self'.workouts = self.workouts
          /\ self'.current_week = self.current_week
          /\ self'.current_day = self.current_day]_vars

\* remove_day has just warned on a week that was brought down to one day
C13_WarnedOnLastDay ==
    /\ self.msg = "Cannot Remove Day"
    /\ PositionOK(self)
    /\ Len(ActiveWeek(self)) = 1
    /\ remove_dialogs = <<>>

\* C14: whenever the plan is not empty the active position is valid:
\* 1 <= current_week <= number of weeks and 0 <= current_day < number of days
\* in the active week.
C14_PositionValid ==
    self.workouts # <<>>
    => /\ 1 <= self.current_week
       /\ self.current_week <= Len(self.workouts)
       /\ 0 <= self.current_day
       /\ self.current_day < Len(ActiveWeek(self))

-----------------------------------------------------------------------------
(* Muscle fatigue claims.                                                  *)

\* the positions of the engagement-map keys that occur in the lowercased name
KeysIn(name) ==
    {i \in 1..Len(engagement_map) : Contains(lower(name), engagement_map[i].key)}
\* the fractions of the first such key in table order
FirstEngagement(name) ==
    engagement_map[CHOOSE i \in KeysIn(name) : \A j \in KeysIn(name) : i <= j]
        .engagement

\* C15: engage_muscles uses the fractions of the first engagement-map key, in
\* table order, that is a substring of the lowercased exercise name.  When
\* such a key exists and load > 0, each engaged muscle's fatigue becomes
\* min(100, fatigue + min(load * fraction * 0.1 / 100, 100)) and its
\* last-engagement date the workout date; otherwise nothing changes.
C15_EngageUsesFirstKey ==
    [][last'.op = "engage_muscles"
       => IF KeysIn(last'.exercise.exercise) # {} /\ last'.load > 0
          THEN \A muscle \in DOMAIN FirstEngagement(last'.exercise.exercise) :
                 /\ self'.muscle_recovery[muscle].fatigue
                      = Min2(FATIGUE_MAX,
                             self.muscle_recovery[muscle].fatigue
                               + Min2(last'.load
                                        * FirstEngagement(last'.exercise.exercise)[muscle],
                                      FATIGUE_MAX))
                 /\ self'.muscle_recovery[muscle].last_workout
                      = last'.workout_date
          ELSE self'.muscle_recovery = self.muscle_recovery]_vars

\* engage_muscles was called with a Front Squat (whose name holds the keys
\* "squat" and, later in the table, "front squat") of positive load, and
\* the quads took the increase of "squat" without reaching the cap
C15_FrontSquatEngagedAsSquat ==
    /\ last.op = "engage_muscles"
    /\ last.exercise.exercise = "Front Squat"
    /\ Cardinality(KeysIn("Front Squat")) = 2
    /\ last.load = 375
    /\ self.muscle_recovery["quads"].fatigue = 375 * 6
    /\ self.muscle_recovery["quads"].last_workout = last.workout_date

\* fatigue after the time from the last engagement to the active date
Decayed(data, muscle, activeDate) ==
    Max2(0, data.fatigue
              - recovery_rates[muscle] * Unit
                  * Max2(0, activeDate.d - data.last_workout.d))

\* C16: every decay step (calculate_current_fatigue and
\* update_muscle_recovery) sets each muscle's fatigue to
\* max(0, fatigue - rate * max(0, activeDate - lastEngagementDate)): it never
\* increases a fatigue, leaves it unchanged when the elapsed time is zero or
\* the active date precedes the last engagement, and does not touch a muscle
\* that has no last-engagement date.
C16_DecayNeverRaisesFatigue ==
    last.op \in {"calculate_current_fatigue", "update_muscle_recovery"}
    => \A muscle \in DOMAIN last.muscle_recovery :
         IF last.muscle_recovery[muscle].last_workout = None
         THEN last.result[muscle] = last.muscle_recovery[muscle]
         ELSE /\ last.result[muscle].fatigue
                   = Decayed(last.muscle_recovery[muscle], muscle,
                             last.current_date)
              /\ last.result[muscle].fatigue
                   <= last.muscle_recovery[muscle].fatigue
              /\ last.result[muscle].last_workout
                   = last.muscle_recovery[muscle].last_workout

-----------------------------------------------------------------------------
(* PR history claims.                                                      *)

\* the day numbers an entry for exercise `name` may carry: the stored date of
\* a day that holds the exercise, or the fallback epoch for an undated one
DatesFor(workouts, name) ==
    {IF AllDays(workouts)[k].date = NoDate THEN EPOCH
     ELSE AllDays(workouts)[k].date :
        k \in {j \in 1..Len(AllDays(workouts)) :
                 \E e \in 1..Len(AllDays(workouts)[j].exercises) :
                    AllDays(workouts)[j].exercises[e].exercise = name}}

\* the dates of a PR record: of its history entries and of its PRs once set
RecordDates(record) ==
    {record.history[h].date : h \in 1..Len(record.history)}
      \cup ({record.weight.date, record.reps.date} \ {None})

\* C17: after recalculate_prs every history entry and PR date recorded for
\* an exercise of day D carries D's stored date or the one fixed fallback
\* epoch date; it depends neither on other days' dates nor on the date that
\* was active before the call.
C17_RecalculatedDatesAreTheDays ==
    \A i \in 1..Len(recalculate_prs(Begin).prs) :
       \A date \in RecordDates(recalculate_prs(Begin).prs[i]) :
          date.d \in DatesFor(self.workouts, recalculate_prs(Begin).prs[i].name)

\* C18: every update_prs call whose weight and reps parse appends exactly
\* one (date, weight, reps) entry at the end of that exercise's history,
\* leaves the earlier entries as they were, and modifies no other exercise's
\* record.
C18_CallAppendsOneEntry ==
    [][\A name \in PrExercises :
         CallFor(last', name)
         => /\ name \in PrNames(self'.prs)
            /\ StoredPr(self'.prs, name).history
                 = Append(StoredPr(self.prs, name).history,
                          [date |-> self.current_date,
                           weight |-> CallWeight(last'),
                           reps |-> CallReps(last')])
            /\ \A i \in 1..Len(self.prs) :
                  self.prs[i].name # name => self'.prs[i] = self.prs[i]
            /\ PrNames(self'.prs) = PrNames(self.prs) \cup {name}]_vars

\* a call that parsed but set no PR (lighter than the weight PR) was
\* appended as the third entry of the Squat history, next to the record of
\* another exercise
C18_ThirdEntryBelowPr ==
    /\ CallFor(last, "Squat")
    /\ Len(StoredPr(self.prs, "Squat").history) = 3
    /\ StoredPr(self.prs, "Squat").history[3].weight = CallWeight(last)
    /\ CallWeight(last) < StoredPr(self.prs, "Squat").weight.value
    /\ "Bench Press" \in PrNames(self.prs)

\* C19: update_prs is a no-op when weight or reps does not parse: the PR map
\* is left exactly as it was.
C19_UnparsedCallIsNoOp ==
    [][(last'.op = "update_prs"
          /\ ~(FloatParsesT[last'.exercise.weight]
                 /\ IntParsesT[last'.exercise.reps]))
       => self'.prs = self.prs]_vars

\* update_prs was called with a weight that does not parse for an exercise
\* that has no record, and it still has none
C19_UnparsedUnseenExercise ==
    /\ last.op = "update_prs"
    /\ ~FloatParsesT[last.exercise.weight]
    /\ IntParsesT[last.exercise.reps]
    /\ last.exercise.exercise \notin PrNames(self.prs)
    /\ self.prs # <<>>

\* C20: no handler ends in an error on malformed input: whenever
\* load_workout_data or on_focus_out looks up the PR record of an exercise
\* of the viewed day the record exists, so no lookup raises KeyError, also
\* after an exercise is renamed to an unseen name while its weight or reps
\* is not a number.
C20_PrLookupFindsRecord ==
    self.err # "KeyError"

-----------------------------------------------------------------------------
(* Navigation, restructuring and day-editing claims.                       *)

\* C21: when the plan is empty (zero weeks) next_day and previous_day each
\* end in the "No Data" warning with the active week and day index and the
\* plan unchanged; neither ends in an error.
C21_EmptyPlanWarns ==
    [][((NextDay \/ PreviousDay) /\ self.workouts = <<>>)
       => /\ self'.err = ""
          /\ self'.msg = "No Data"
          /\ self'.workouts = self.workouts
          /\ self'.current_week = self.current_week
          /\ self'.current_day = self.current_day]_vars

\* ceil(n / 5)
WeeksOf(n) == (n + 4) \div 5

\* C22: restructure_workouts returns an already-nested input unchanged, and
\* turns a flat sequence of N days into ceil(N/5) weeks in which every week
\* but the last has exactly 5 days, the last has N - 5*(ceil(N/5)-1) days,
\* and the weeks concatenated give the input days in their original order.
C22_FlatDaysInWeeksOfFive ==
    last.op = "restructure_workouts"
    => IF last.input.nested
       THEN last.result = last.input.data
       ELSE /\ Len(last.result) = WeeksOf(Len(last.input.data))
            /\ \A w \in 1..(Len(last.result) - 1) : Len(last.result[w]) = 5
            /\ Len(last.result) > 0
                 => Len(last.result[Len(last.result)])
                      = Len(last.input.data) - 5 * (WeeksOf(Len(last.input.data)) - 1)
            /\ AllDays(last.result) = last.input.data

\* restructure_workouts was called on 12 flat days and gave weeks of 5, 5
\* and 2 days
C22_TwelveDaysInThreeWeeks ==
    /\ last.op = "restructure_workouts"
    /\ ~last.input.nested
    /\ Len(last.input.data) = 12
    /\ Len(last.result) = 3
    /\ Len(last.result[1]) = 5
    /\ Len(last.result[2]) = 5
    /\ Len(last.result[3]) = 2

\* the number of days in the weeks before week w
EarlierDays(workouts, w) == Len(AllDays(SubSeq(workouts, 1, w - 1)))

\* the plan with its labels left out
UnlabelledPlan(workouts) ==
    [w \in 1..Len(workouts) |->
        [d \in 1..Len(workouts[w]) |-> Unlabelled(workouts[w][d])]]

\* C23: add_day on an active week of fewer than 7 days appends exactly one
\* day with no exercises at the end of that week; its label is "Day k" with
\* k = (days in all earlier weeks) + (new length of the active week), its
\* date is today + (k - 1) days, all labels are sequential, and the active
\* day index points at the new day.
C23_AddDayAppendsNextDay ==
    [][(AddDay /\ self.current_week <= Len(self.workouts)
               /\ Len(ActiveWeek(self)) < 7)
       => /\ self'.current_week = self.current_week
          /\ self'.current_day = Len(ActiveWeek(self))
          /\ UnlabelledPlan(self'.workouts)
               = [UnlabelledPlan(self.workouts) EXCEPT
                    ![self.current_week] =
                       Append(@, [date |-> Today
                                            + EarlierDays(self.workouts,
                                                          self.current_week)
                                            + Len(ActiveWeek(self)),
                                  exercises |-> <<>>])]
          /\ ActiveWeek(self')[Len(ActiveWeek(self'))].day
               = EarlierDays(self.workouts, self.current_week)
                   + Len(ActiveWeek(self'))
          /\ \A k \in 1..Len(AllDays(self'.workouts)) :
                AllDays(self'.workouts)[k].day = k]_vars

\* add_day has just added the second day of week 2 behind a first week of
\* two days: Day 4, dated today + 3
C23_FourthDayAdded ==
    /\ self.msg = "Day Added"
    /\ self.current_week = 2
    /\ self.current_day = 1
    /\ Len(self.workouts[1]) = 2
    /\ Len(self.workouts[2]) = 2
    /\ self.workouts[2][2] = Day(4, Today + 3, <<>>)

\* week with the days at positions i and j exchanged
Exchanged(week, i, j) == [week EXCEPT ![i] = week[j], ![j] = week[i]]

\* C24: confirming a swap of positions i # j in the active week exchanges
\* the two days (their exercises and dates move together), leaves every
\* other day in its position, and renumbers so that the labels stay
\* sequential by position; confirming with i = j changes nothing in the plan.
C24_SwapExchangesSelected ==
    \A k \in 1..Len(swap_dialogs) :
       \A i, j \in 1..Len(swap_dialogs[k]) :
          (/\ self.current_week <= Len(self.workouts)
           /\ i <= Len(ActiveWeek(self))
           /\ j <= Len(ActiveWeek(self)))
          => IF i = j
             THEN perform_swap(Begin, swap_dialogs[k], i, j).workouts
                    = self.workouts
             ELSE /\ UnlabelledPlan(
                        perform_swap(Begin, swap_dialogs[k], i, j).workouts)
                      = [UnlabelledPlan(self.workouts) EXCEPT
                           ![self.current_week] = Exchanged(@, i, j)]
                  /\ \A n \in 1..Len(AllDays(self.workouts)) :
                        AllDays(perform_swap(Begin, swap_dialogs[k], i, j)
                                  .workouts)[n].day = n

\* C25: calculate_rpe(week) is 60 + (week-1)*4.5 for weeks 1 to 6, 70 for
\* week 7 and 75 + (week-8)*4.5 from week 8 on (in tenths: 600 + 45 per
\* week, 700, 750 + 45 per week); rpe(1) = 60.0, rpe(6) = 82.5,
\* rpe(7) = 70.0, rpe(8) = 75.0, rpe(10) = 84.0.
C25_RpeIsPiecewiseLinear ==
    last.op = "calculate_rpe"
    => /\ last.week \in 1..6 => last.result = 600 + (last.week - 1) * 45
       /\ last.week = 7 => last.result = 700
       /\ last.week >= 8 => last.result = 750 + (last.week - 8) * 45
       /\ last.week = 1 => last.result = 600
       /\ last.week = 6 => last.result = 825
       /\ last.week = 8 => last.result = 750
       /\ last.week = 10 => last.result = 840

\* calculate_rpe was called for week 7 and gave less than for week 6
C25_WeekSevenDrops ==
    /\ last.op = "calculate_rpe"
    /\ last.week = 7
    /\ last.result = 700
    /\ last.result < calculate_rpe(6)

-----------------------------------------------------------------------------
(* PR display claims.                                                      *)

\* the names in a sequence
Elems(seq) == {seq[i] : i \in 1..Len(seq)}
\* the matched exercises of a display family that have a weight PR
FamilyWithPr(prs, matching, family) ==
    {n \in Elems(matching) :
        BaseNameT[n] = family /\ StoredPr(prs, n).weight.value > 0}
\* the entries reported for a family
Reported(condensed_prs, family) ==
    {i \in 1..Len(condensed_prs) : condensed_prs[i].base_name = family}

\* C26: in show_pr_details the record reported for a display family is a
\* matched exercise of the family with the highest weight PR, ties broken by
\* the higher reps PR, among those whose weight PR is > 0; a family whose
\* matched exercises all have weight PR 0 is not reported; and "no data" is
\* signalled exactly when no exercise name matches the query.
C26_BestRecordPerFamily ==
    last.op = "show_pr_details"
    => /\ last.result.nodata <=> last.result.matching_exercises = <<>>
       /\ \A i \in 1..Len(last.result.condensed_prs) :
             last.result.condensed_prs[i].base_name
                \in {BaseNameT[n] : n \in Elems(last.result.matching_exercises)}
       /\ \A family \in {BaseNameT[n] :
                             n \in Elems(last.result.matching_exercises)} :
             IF FamilyWithPr(self.prs, last.result.matching_exercises, family) = {}
             THEN Reported(last.result.condensed_prs, family) = {}
             ELSE /\ Cardinality(Reported(last.result.condensed_prs, family)) = 1
                  /\ \A i \in Reported(last.result.condensed_prs, family) :
                        /\ last.result.condensed_prs[i].pr_data.name
                              \in FamilyWithPr(self.prs,
                                               last.result.matching_exercises,
                                               family)
                        /\ last.result.condensed_prs[i].pr_data
                              = StoredPr(self.prs,
                                         last.result.condensed_prs[i].pr_data.name)
                        /\ \A n \in FamilyWithPr(self.prs,
                                                  last.result.matching_exercises,
                                                  family) :
                              ~better(StoredPr(self.prs, n),
                                      last.result.condensed_prs[i].pr_data)

\* the squat details were shown with "Squat" and "squat" at the same weight
\* PR, "Squat" listed first with the higher reps PR: "Squat" is reported
C26_TieKeptOnReps ==
    /\ last.op = "show_pr_details"
    /\ last.exercise_name = "Squats"
    /\ last.result.matching_exercises = <<"Squat", "squat">>
    /\ StoredPr(self.prs, "Squat").weight.value = 50
    /\ StoredPr(self.prs, "squat").weight.value = 50
    /\ StoredPr(self.prs, "Squat").reps.value = 5
    /\ StoredPr(self.prs, "squat").reps.value = 3
    /\ Len(last.result.condensed_prs) = 1
    /\ last.result.condensed_prs[1].pr_data.name = "Squat"

\* the recorded names a query is to match
Squatlike(name) ==
    /\ Contains(lower(name), "squat")
    /\ ~Contains(lower(name), "hack")
    /\ ~Contains(lower(name), "bulgarian split")
ToMatch(query, name) ==
    IF Contains(lower(query), "squat") THEN Squatlike(name)
    ELSE IF Contains(lower(query), "bench") THEN Contains(lower(name), "bench")
    ELSE IF Contains(lower(query), "deadlift")
    THEN Contains(lower(name), "deadlift")
    ELSE lower(name) = lower(query)

\* C27: in show_pr_details a query containing "squat" matches exactly the
\* recorded names that contain "squat" and neither "hack" nor "bulgarian
\* split" (case-insensitively); a query containing "bench" or "deadlift"
\* matches exactly the names containing that token; any other query matches
\* exactly the names equal to it case-insensitively.
C27_QueryMatchesFamily ==
    last.op = "show_pr_details"
    => Elems(last.result.matching_exercises)
         = {n \in PrNames(self.prs) : ToMatch(last.exercise_name, n)}

\* the squat details were shown with Hack Squat, Bulgarian Split Squat and
\* Front Squat recorded: only Front Squat matched
C27_HackSquatLeftOut ==
    /\ last.op = "show_pr_details"
    /\ last.exercise_name = "Squats"
    /\ PrNames(self.prs) = {"Hack Squat", "Bulgarian Split Squat", "Front Squat"}
    /\ last.result.matching_exercises = <<"Front Squat">>

\* the history entries (record, position) of the recorded exercises whose
\* name equals one of the requested names case-insensitively
Requested(prs, exercise_names) ==
    {e \in (1..Len(prs)) \X (1..MaxCalls) :
        /\ e[2] <= Len(prs[e[1]].history)
        /\ \E k \in 1..Len(exercise_names) :
              LowerT[exercise_names[k]] = LowerT[prs[e[1]].name]}
\* the (date, weight) of such an entry
PointOf(prs, e) ==
    [date |-> prs[e[1]].history[e[2]].date.d,
     weight |-> prs[e[1]].history[e[2]].weight]

\* C28: show_progress_graph builds its (date, weight) points from exactly
\* the history entries of the recorded exercises whose name equals one of
\* the requested names case-insensitively, each weight paired with its own
\* date, emits them sorted ascending by date, and signals "no data" exactly
\* when there are no such entries.
C28_GraphPlotsRequestedHistory ==
    last.op = "show_progress_graph"
    => /\ last.result.nodata <=> Requested(self.prs, last.exercise_names) = {}
       /\ Len(last.result.points)
            = Cardinality(Requested(self.prs, last.exercise_names))
       /\ \A e \in Requested(self.prs, last.exercise_names) :
             Cardinality({i \in 1..Len(last.result.points) :
                             last.result.points[i] = PointOf(self.prs, e)})
               = Cardinality({f \in Requested(self.prs, last.exercise_names) :
                                 PointOf(self.prs, f) = PointOf(self.prs, e)})
       /\ \A i \in 1..(Len(last.result.points) - 1) :
             last.result.points[i].date <= last.result.points[i + 1].date

\* the squat graph was drawn from a heavier Squat entry dated before a
\* lighter Front Squat entry, recorded in the other order, next to a Hack
\* Squat entry that is not plotted
C28_EarlierHeavierPointFirst ==
    /\ last.op = "show_progress_graph"
    /\ last.exercise_names = <<"squat", "back squat", "front squat">>
    /\ PrNames(self.prs) = {"Front Squat", "Squat", "Hack Squat"}
    /\ self.prs[1].name = "Front Squat"
    /\ last.result.points
         = <<[date |-> Today - 2, weight |-> 100], [date |-> Today, weight |-> 50]>>

\* C29: every run of the periodic recovery tick is followed by another
\* scheduled run: when update_recovery has run, the timer is armed again
C29_TickReschedulesItself == [][Tick => timer']_vars

\* C30: the first update_prs call for an exercise name that has no record,
\* with a parseable weight w > 0 and reps r > 0 on the date d, creates the
\* record with weight PR w dated d, reps PR r dated d and the history
\* [(d, w, r)]
FirstEntry(exercise) ==
    /\ exercise.exercise \notin PrNames(self.prs)
    /\ FloatParsesT[exercise.weight] /\ FloatValueT[exercise.weight] > 0
    /\ IntParsesT[exercise.reps] /\ IntValueT[exercise.reps] > 0
C30_FirstEntrySetsBothPrs ==
    [][UpdatePrs /\ FirstEntry(last'.exercise) =>
          /\ last'.exercise.exercise \in PrNames(self'.prs)
          /\ StoredPr(self'.prs, last'.exercise.exercise)
               = [name |-> last'.exercise.exercise,
                  weight |-> [value |-> FloatValueT[last'.exercise.weight],
                              date |-> self.current_date],
                  reps |-> [value |-> IntValueT[last'.exercise.reps],
                            date |-> self.current_date],
                  history |-> <<[date |-> self.current_date,
                                 weight |-> FloatValueT[last'.exercise.weight],
                                 reps |-> IntValueT[last'.exercise.reps]]>>]]_vars
C30_FirstSquatRecorded ==
    /\ last = [op |-> "update_prs", exercise |-> Exercise("Squat", "3", "5", "10")]
    /\ "Squat" \in PrNames(self.prs)
    /\ StoredPr(self.prs, "Squat").weight.value = 10 * WeightScale
    /\ StoredPr(self.prs, "Squat").weight.date # None
    /\ StoredPr(self.prs, "Squat").reps
         = [value |-> 5, date |-> StoredPr(self.prs, "Squat").weight.date]
    /\ Len(StoredPr(self.prs, "Squat").history) = 1

\* C31: viewing or navigating between days (next_day, previous_day, week
\* selection, edit_day) on an unchanged plan leaves every PR record -- its
\* weight PR, reps PR and history -- unchanged
C31_NavigationKeepsPrs ==
    [][(NextDay \/ PreviousDay \/ WeekSelect \/ EditDay)
          /\ self'.workouts = self.workouts
       => self'.prs = self.prs]_vars

\* the dates of the days of the plan, dated on or before the active date,
\* that hold an exercise engaging the muscle
Engages(exercise, muscle) ==
    /\ MatchedT[exercise.exercise] # 0
    /\ calculate_load(exercise) > 0
    /\ muscle \in DOMAIN engagement_map[MatchedT[exercise.exercise]].engagement
EngagingDates(s, muscle) ==
    {day_date(AllDays(s.workouts)[k]).d :
        k \in {j \in 1..Len(AllDays(s.workouts)) :
                 /\ day_date(AllDays(s.workouts)[j]).d <= s.current_date.d
                 /\ \E e \in 1..Len(AllDays(s.workouts)[j].exercises) :
                       Engages(AllDays(s.workouts)[j].exercises[e], muscle)}}
Recomputed(s) ==
    s.err = "" /\ s.current_date.t = "date"
       /\ s.msg \in {"", "Swap Successful"}

\* C32: after a fatigue recompute up to the active date, each engaged
\* muscle's last-engagement date is the latest date among the engaging days
\* dated on or before the active date, whatever the order of the days
C32_LastEngagementIsLatest ==
    [][(NextDay \/ PreviousDay \/ PerformSwap) /\ Recomputed(self') =>
          \A muscle \in Muscles :
             EngagingDates(self', muscle) # {} =>
                /\ self'.muscle_recovery[muscle].last_workout # None
                /\ \A d \in EngagingDates(self', muscle) :
                      d <= self'.muscle_recovery[muscle].last_workout.d]_vars

\* C33: recalculate_prs leaves the active date unchanged: called in any
\* state, it returns with current_date as it was before the call
C33_RecalculateKeepsActiveDate ==
    recalculate_prs(Begin).current_date = self.current_date

\* what a structural edit may do to the plan `old` with its labels left out:
\* one day appended to week w, two days of week w exchanged, one day of
\* week w taken out; every other day keeps its week, position, exercises
\* and date
DayAdded(old, new, w) ==
    /\ w \in 1..Len(new)
    /\ Len(new[w]) > 0
    /\ new = [old EXCEPT ![w] = Append(@, new[w][Len(new[w])])]
DaysSwapped(old, new, w) ==
    /\ w \in 1..Len(old)
    /\ \E i, j \in 1..Len(old[w]) : new = [old EXCEPT ![w] = Exchanged(@, i, j)]
DayRemoved(old, new, w) ==
    /\ w \in 1..Len(old)
    /\ \E i \in 1..Len(old[w]) : new = [old EXCEPT ![w] = RemoveAt(@, i)]
\* a removal through one of the open dialogs: from the week the dialog was
\* opened on, or, once load_data has replaced the plan, from none
RemovedByDialog(old, new) ==
    \E k \in 1..Len(remove_dialogs) :
       IF remove_dialogs[k].gen = loads
       THEN DayRemoved(old, new, remove_dialogs[k].week)
       ELSE new = old

\* C34: add_day, a confirmed swap and a confirmed removal change the number
\* of days only in the targeted week, by +1, 0 and -1, never change the
\* exercises or the stored date of a surviving day and never move a day to
\* another week; only labels of other days may change.  (The week targeted
\* by a removal is the list its dialog was opened on; a handler that ends
\* without its message has made this change or none.)
C34_StructuralEditsKeepOtherDays ==
    [][/\ AddDay =>
            \/ DayAdded(UnlabelledPlan(self.workouts),
                        UnlabelledPlan(self'.workouts), self.current_week)
            \/ self'.msg # "Day Added" /\ self'.workouts = self.workouts
       /\ PerformSwap =>
            \/ DaysSwapped(UnlabelledPlan(self.workouts),
                           UnlabelledPlan(self'.workouts), self.current_week)
            \/ self'.msg # "Swap Successful" /\ self'.workouts = self.workouts
       /\ PerformRemove =>
            \/ RemovedByDialog(UnlabelledPlan(self.workouts),
                               UnlabelledPlan(self'.workouts))
            \/ self'.msg # "Day Removed" /\ self'.workouts = self.workouts]_vars

\* the first day of the saved plan has been removed: the second keeps its
\* exercises and date, the second week is as it was but for its label
C34_FirstDayRemoved ==
    /\ self.msg = "Day Removed"
    /\ self.workouts = << <<Day(1, Today, <<HeavySquat>>)>>,
                          <<Day(2, Today + 7, <<>>)>> >>

\* the positions of the engagement-map keys equal to the lowercased name
KeysNamed(name) ==
    {k \in 1..Len(engagement_map) : engagement_map[k].key = lower(name)}

\* C35: for every key K of the engagement map, an exercise whose name is
\* exactly K is engaged with K's own muscle fractions: with load > 0 each of
\* K's muscles takes the increase min(load * K's fraction * 0.1 / 100, 100)
C35_ExactKeyUsesOwnFractions ==
    [][last'.op = "engage_muscles" /\ last'.load > 0 =>
          \A k \in KeysNamed(last'.exercise.exercise) :
             \A muscle \in DOMAIN engagement_map[k].engagement :
                self'.muscle_recovery[muscle].fatigue
                  = Min2(FATIGUE_MAX,
                         self.muscle_recovery[muscle].fatigue
                           + Min2(last'.load
                                    * engagement_map[k].engagement[muscle],
                                  FATIGUE_MAX))]_vars

====
